---- MODULE Spec2Model ----
(***************************************************************************)
(* Kentucky Rook ("Dunk"): the rules engine, the heuristic opponent and    *)
(* the session controller that drives a round from the deal to the         *)
(* settlement.                                                             *)
(*                                                                         *)
(* Numbers with a fractional part in the source are kept as integers:      *)
(* trick values are doubled (the Dunk's 10.5 is 21), hand strength is      *)
(* doubled (the weights 1.5 and 2.5 are 3 and 5).                          *)
(*                                                                         *)
(* The deck keeps the four suits and the Dunk but only NumRanks of the 14  *)
(* ranks; a hand holds NumRanks - 1 cards (13 of 14 in the source), so     *)
(* that four hands and the 5-card kitty are the whole deck, as in the      *)
(* source.  The point-bearing ranks 1, 5, 10 and 14 are always kept.       *)
(***************************************************************************)
EXTENDS Integers, Sequences, FiniteSets, TLC

(* ------------------------------ bounds --------------------------------- *)
NumRanks == 4
NumShuffles == 4
MaxRaiseSteps == 2
MaxApiCalls == 4
MaxKittyShift == 1
NumTrickRanks == 5
NumOffRanks == 2
MaxScoreSteps == 3
MaxForeign == 1
AiHandLen == 13
NumCardRanks == 4
NumCardSuits == 2
MaxCardHand == 3
MaxCardTrick == 2

(* ------------------------- setup.js constants -------------------------- *)
WINNING_SCORE == 500
KITTY_SIZE == 5
MIN_BID == 70
MAX_BID == 200
BID_INCREMENT == 5
FINAL_TRICK_BONUS == 20
ROUND_POINTS == 200

playerOrder == <<"Patricia", "Alex", "Jordan", "You">>
Seats == {playerOrder[i] : i \in 1..4}
NULL == "null"

(* Order in which ranks are kept when the deck is cut down to NumRanks.    *)
RankOrder == <<1, 5, 10, 14, 12, 7, 13, 3, 11, 2, 4, 6, 8, 9>>
RankSet == {RankOrder[i] : i \in 1..NumRanks}
STANDARD_VALUES == SelectSeq(<<1, 2, 3, 4, 5, 6, 7, 8, 9, 10, 11, 12, 13, 14>>,
                             LAMBDA v : v \in RankSet)
CARDS_PER_PLAYER == NumRanks - 1

SUITS == <<"orange", "yellow", "blue", "green">>
DUNK == "dunk"
(* The Dunk's value 'D' is the only non-numeric card value.                *)
D == 0
(* A card field that was never set (undefined in the source).              *)
UNDEF == -1

CARD_VALUESOneIsTen(value) ==
  CASE value = 1 -> 10
    [] value = 5 -> 5
    [] value = 10 -> 10
    [] value = 14 -> 10
    [] value = D -> 20
    [] OTHER -> 0

CARD_VALUES(value) ==
  CASE value = 1 -> 15
    [] value = 5 -> 5
    [] value = 10 -> 10
    [] value = 14 -> 10
    [] value = D -> 20
    [] OTHER -> 0

createCard(suit, value) == [suit |-> suit, value |-> value, points |-> CARD_VALUES(value)]

RECURSIVE Concat(_)
Concat(ss) == IF ss = <<>> THEN <<>> ELSE Head(ss) \o Concat(Tail(ss))

createDeck ==
  Concat([s \in 1..Len(SUITS) |->
            [v \in 1..Len(STANDARD_VALUES) |-> createCard(SUITS[s], STANDARD_VALUES[v])]])
  \o <<createCard(DUNK, D)>>

DeckSize == Len(createDeck)

RECURSIVE SumSeq(_)
SumSeq(s) == IF s = <<>> THEN 0 ELSE Head(s) + SumSeq(Tail(s))

(* Math.floor(Math.random() * (i + 1)) for the k-th modelled random source; *)
(* i is the 0-based index of the Fisher-Yates loop, the result is in 0..i. *)
RandomIndex(k, i) == ((k + 2) * (i * i + 1) + (i \div 3) * k) % (i + 1)

Swap(s, a, b) == [s EXCEPT ![a] = s[b], ![b] = s[a]]

RECURSIVE FisherYates(_, _, _)
FisherYates(shuffled, i, k) ==
  IF i <= 0 THEN shuffled
  ELSE FisherYates(Swap(shuffled, i + 1, RandomIndex(k, i) + 1), i - 1, k)

shuffleDeck(deck, k) == FisherYates(deck, Len(deck) - 1, k)

(* dealCards: round-robin pops from the end of the deck, then 5 more pops  *)
(* for the kitty.                                                          *)
dealCards(deck) ==
  LET n == Len(deck)
      hand(p) == [r \in 1..CARDS_PER_PLAYER |-> deck[n - ((r - 1) * 4 + p)]]
      dealt == 4 * CARDS_PER_PLAYER
  IN [hands |-> [p \in 0..3 |-> hand(p)],
      kitty |-> [i \in 1..KITTY_SIZE |-> deck[n - dealt - (i - 1)]]]

createNewGame(k) == dealCards(shuffleDeck(createDeck, k))

getHandPoints(hand) == SumSeq([i \in 1..Len(hand) |-> hand[i].points])

(* ------------------------- bidding (logic.js) -------------------------- *)
startBiddingRound(roundNumber) ==
  [currentBid |-> 0,
   currentPlayerIndex |-> (roundNumber - 1) % 4,
   bids |-> <<>>,
   passes |-> <<>>,
   highestBidder |-> NULL,
   highestBid |-> 0,
   isComplete |-> FALSE,
   winner |-> NULL,
   winningBid |-> 0]

isValidBidStrict(newBid, currentHighestBid) ==
  ~ (newBid < currentHighestBid) /\ newBid % 5 = 0 /\ ~ (newBid < 70 \/ newBid > 200)

isValidBid(newBid, currentHighestBid) ==
  /\ ~ (newBid <= currentHighestBid)
  /\ ~ (newBid % 5 # 0)
  /\ ~ (newBid < 70 \/ newBid > 200)

(* makeBid.  updatedState is a shallow copy, so bids is the array of the   *)
(* input state: `out' is the returned state, `inp' the input state as the  *)
(* call leaves it, and ok = FALSE stands for the thrown Error.             *)
makeBidRecordFirst(biddingState, playerName, bidAmount) ==
  LET bids2 == Append(biddingState.bids, [player |-> playerName, amount |-> bidAmount])
      inp2 == [biddingState EXCEPT !.bids = bids2]
  IN IF ~ isValidBid(bidAmount, biddingState.highestBid)
     THEN [ok |-> FALSE, out |-> inp2, inp |-> inp2]
     ELSE [ok |-> TRUE,
           out |-> [inp2 EXCEPT
                      !.highestBid = bidAmount,
                      !.highestBidder = playerName,
                      !.isComplete = IF bidAmount = 200 THEN TRUE ELSE @,
                      !.winner = IF bidAmount = 200 THEN playerName ELSE @,
                      !.winningBid = IF bidAmount = 200 THEN bidAmount ELSE @,
                      !.currentPlayerIndex = (@ + 1) % 4],
           inp |-> inp2]

makeBidNoMaxEnd(biddingState, playerName, bidAmount) ==
  IF ~ isValidBid(bidAmount, biddingState.highestBid)
  THEN [ok |-> FALSE, out |-> biddingState, inp |-> biddingState]
  ELSE LET bids2 == Append(biddingState.bids, [player |-> playerName, amount |-> bidAmount])
       IN [ok |-> TRUE,
           out |-> [biddingState EXCEPT
                      !.bids = bids2,
                      !.highestBid = bidAmount,
                      !.highestBidder = playerName,
                      !.currentPlayerIndex = (@ + 1) % 4],
           inp |-> [biddingState EXCEPT !.bids = bids2]]

makeBidEndsBeforeAdvance(biddingState, playerName, bidAmount) ==
  IF ~ isValidBid(bidAmount, biddingState.highestBid)
  THEN [ok |-> FALSE, out |-> biddingState, inp |-> biddingState]
  ELSE LET bids2 == Append(biddingState.bids, [player |-> playerName, amount |-> bidAmount])
       IN [ok |-> TRUE,
           out |-> [biddingState EXCEPT
                      !.bids = bids2,
                      !.highestBid = bidAmount,
                      !.highestBidder = playerName,
                      !.isComplete = IF bidAmount = 200 THEN TRUE ELSE @,
                      !.winner = IF bidAmount = 200 THEN playerName ELSE @,
                      !.winningBid = IF bidAmount = 200 THEN bidAmount ELSE @,
                      !.currentPlayerIndex = IF bidAmount = 200 THEN @ ELSE (@ + 1) % 4],
           inp |-> [biddingState EXCEPT !.bids = bids2]]

makeBid(biddingState, playerName, bidAmount) ==
  IF ~ isValidBid(bidAmount, biddingState.highestBid)
  THEN [ok |-> FALSE, out |-> biddingState, inp |-> biddingState]
  ELSE LET bids2 == Append(biddingState.bids, [player |-> playerName, amount |-> bidAmount])
       IN [ok |-> TRUE,
           out |-> [biddingState EXCEPT
                      !.bids = bids2,
                      !.highestBid = bidAmount,
                      !.highestBidder = playerName,
                      !.isComplete = IF bidAmount = 200 THEN TRUE ELSE @,
                      !.winner = IF bidAmount = 200 THEN playerName ELSE @,
                      !.winningBid = IF bidAmount = 200 THEN bidAmount ELSE @,
                      !.currentPlayerIndex = (@ + 1) % 4],
           inp |-> [biddingState EXCEPT !.bids = bids2]]

passBidNoWinner(biddingState, playerName) ==
  LET passes2 == Append(biddingState.passes, playerName)
      done == Len(passes2) >= 3
  IN [ok |-> TRUE,
      out |-> [biddingState EXCEPT
                 !.passes = passes2,
                 !.isComplete = IF done THEN TRUE ELSE @,
                 !.winningBid = IF done THEN biddingState.highestBid ELSE @,
                 !.currentPlayerIndex = (@ + 1) % 4],
      inp |-> [biddingState EXCEPT !.passes = passes2]]

passBid(biddingState, playerName) ==
  LET passes2 == Append(biddingState.passes, playerName)
      done == Len(passes2) >= 3
  IN [ok |-> TRUE,
      out |-> [biddingState EXCEPT
                 !.passes = passes2,
                 !.isComplete = IF done THEN TRUE ELSE @,
                 !.winner = IF done THEN biddingState.highestBidder ELSE @,
                 !.winningBid = IF done THEN biddingState.highestBid ELSE @,
                 !.currentPlayerIndex = (@ + 1) % 4],
      inp |-> [biddingState EXCEPT !.passes = passes2]]

getCurrentBidder(biddingState) == playerOrder[biddingState.currentPlayerIndex + 1]

isBiddingComplete(biddingState) == biddingState.isComplete

getBiddingResult(biddingState) ==
  [winner |-> biddingState.winner, winningBid |-> biddingState.winningBid]

(* ------------------------ heuristic opponent (ai.js) ------------------- *)
AI_SUITS == <<"yellow", "orange", "green", "blue">>

(* CARD_RANKS holds its ranks as text.  A card value written as text, as   *)
(* in the hands of ai-test.js, is the number plus 100 here; the values of  *)
(* dealt cards are numbers, except the Dunk's 'D'.                         *)
CARD_RANKS == <<2, 3, 4, 5, 6, 7, 8, 9, 10, 11, 12, 13, 14, 1, D>>

AsText(value) == value + 100

IsText(value) == value > 100

(* CARD_RANKS.indexOf(card.value): strict equality finds text only, so a   *)
(* numeric value gives -1.                                                 *)
RankIndex(value) ==
  IF value = D THEN 14
  ELSE IF IsText(value)
  THEN (CHOOSE i \in 1..Len(CARD_RANKS) : AsText(CARD_RANKS[i]) = value) - 1
  ELSE -1

(* CARD_POINTS[card.value]: a property key is looked up as text, so the    *)
(* value finds its entry whether it is a number or text.                   *)
getCardPoints(card) ==
  CARD_VALUES(IF IsText(card.value) THEN card.value - 100 ELSE card.value)

getPlayerTeam(playerName) ==
  IF playerName = "Patricia" \/ playerName = "Jordan" THEN 2
  ELSE IF playerName = "Alex" \/ playerName = "You" THEN 1
  ELSE 0

areTeammates(player1, player2) == getPlayerTeam(player1) = getPlayerTeam(player2)

CountSuit(hand, suit) == Cardinality({i \in 1..Len(hand) : hand[i].suit = suit})

(* evaluateHandStrength, doubled (weights 6, 12, 2.5 and 1.5 become 12,    *)
(* 24, 5 and 3).  The loop over the cards adds a weight per card that      *)
(* qualifies, which is the weight times the number of such cards; the loop *)
(* over bySuit visits the suits held, whose lengths add up to the size of  *)
(* the hand, and a suit in bySuit never has length 0.                      *)
evaluateHandStrength(hand, powerSuit) ==
  12 * Cardinality({i \in 1..Len(hand) : RankIndex(hand[i].value) >= 15 - 3})
  + 24 * CountSuit(hand, DUNK)
  + 5 * CountSuit(hand, powerSuit)
  + 3 * SumSeq([n \in 1..5 |-> CountSuit(hand, <<"orange", "yellow", "blue", "green", DUNK>>[n])])

(* The loop replaces best only on a strictly greater score, so the result  *)
(* is the first suit of AI_SUITS that reaches the greatest score.          *)
chooseBestPowerSuit(hand) ==
  AI_SUITS[CHOOSE i \in 1..Len(AI_SUITS) :
             \A j \in 1..Len(AI_SUITS) :
               /\ evaluateHandStrength(hand, AI_SUITS[j]) <= evaluateHandStrength(hand, AI_SUITS[i])
               /\ j < i => evaluateHandStrength(hand, AI_SUITS[j])
                              < evaluateHandStrength(hand, AI_SUITS[i])]

chooseAIPowerSuit(hand) == chooseBestPowerSuit(hand)

(* Math.round(70 + strength * 0.8 * 1.4), then rounded to the nearest 5.   *)
maxComfortableBid(strength2) ==
  LET raw == (7050 + 56 * strength2) \div 100
  IN ((2 * raw + 5) \div 10) * 5

PASS == "pass"

chooseAIBidNoClamp(hand, currentBid, minBid, maxBid) ==
  LET strength2 == evaluateHandStrength(hand, chooseBestPowerSuit(hand))
      bidIncrement == IF strength2 >= 100 THEN 30
                      ELSE IF strength2 >= 90 THEN 25
                      ELSE IF strength2 >= 70 THEN 20
                      ELSE 15
  IN IF currentBid = 0 THEN [action |-> "bid", amount |-> minBid]
     ELSE IF strength2 < 50 THEN [action |-> PASS, amount |-> 0]
     ELSE IF maxComfortableBid(strength2) < currentBid + 5 THEN [action |-> PASS, amount |-> 0]
     ELSE [action |-> "bid", amount |-> currentBid + bidIncrement]

chooseAIBidNoFloor(hand, currentBid, minBid, maxBid) ==
  LET strength2 == evaluateHandStrength(hand, chooseBestPowerSuit(hand))
      bidIncrement == IF strength2 >= 100 THEN 30
                      ELSE IF strength2 >= 90 THEN 25
                      ELSE IF strength2 >= 70 THEN 20
                      ELSE 15
      finalBid == currentBid + bidIncrement
  IN IF currentBid = 0 THEN [action |-> "bid", amount |-> minBid]
     ELSE IF maxComfortableBid(strength2) < currentBid + 5 THEN [action |-> PASS, amount |-> 0]
     ELSE [action |-> "bid", amount |-> IF finalBid < maxBid THEN finalBid ELSE maxBid]

chooseAIBidFloorFirst(hand, currentBid, minBid, maxBid) ==
  LET strength2 == evaluateHandStrength(hand, chooseBestPowerSuit(hand))
      bidIncrement == IF strength2 >= 100 THEN 30
                      ELSE IF strength2 >= 90 THEN 25
                      ELSE IF strength2 >= 70 THEN 20
                      ELSE 15
      finalBid == currentBid + bidIncrement
  IN IF strength2 < 50 THEN [action |-> PASS, amount |-> 0]
     ELSE IF currentBid = 0 THEN [action |-> "bid", amount |-> minBid]
     ELSE IF maxComfortableBid(strength2) < currentBid + 5 THEN [action |-> PASS, amount |-> 0]
     ELSE [action |-> "bid", amount |-> IF finalBid < maxBid THEN finalBid ELSE maxBid]

chooseAIBid(hand, currentBid, minBid, maxBid) ==
  LET strength2 == evaluateHandStrength(hand, chooseBestPowerSuit(hand))
      bidIncrement == IF strength2 >= 100 THEN 30
                      ELSE IF strength2 >= 90 THEN 25
                      ELSE IF strength2 >= 70 THEN 20
                      ELSE 15
      finalBid == currentBid + bidIncrement
  IN IF currentBid = 0 THEN [action |-> "bid", amount |-> minBid]
     ELSE IF strength2 < 50 THEN [action |-> PASS, amount |-> 0]
     ELSE IF maxComfortableBid(strength2) < currentBid + 5 THEN [action |-> PASS, amount |-> 0]
     ELSE [action |-> "bid", amount |-> IF finalBid < maxBid THEN finalBid ELSE maxBid]

makeAIBidDecision(aiPlayerName, aiHand, biddingState) ==
  chooseAIBid(aiHand, biddingState.highestBid, 70, 200)

(* Array.prototype.sort with a comparator on integer keys is stable: the   *)
(* pairs <<key, element>> are ordered by key, ties keep their order.       *)
RECURSIVE InsertDesc(_, _)
InsertDesc(sorted, x) ==
  IF sorted = <<>> THEN <<x>>
  ELSE IF Head(sorted)[1] >= x[1] THEN <<Head(sorted)>> \o InsertDesc(Tail(sorted), x)
  ELSE <<x>> \o sorted

RECURSIVE StableSortDesc(_)
StableSortDesc(pairs) ==
  IF pairs = <<>> THEN <<>>
  ELSE InsertDesc(StableSortDesc(SubSeq(pairs, 1, Len(pairs) - 1)), pairs[Len(pairs)])

SortByRankDesc(cards) ==
  LET sorted == StableSortDesc([i \in 1..Len(cards) |-> <<RankIndex(cards[i].value), cards[i]>>])
  IN [i \in 1..Len(cards) |-> sorted[i][2]]

SortByRankAsc(cards) ==
  LET sorted == StableSortDesc([i \in 1..Len(cards) |-> <<0 - RankIndex(cards[i].value), cards[i]>>])
  IN [i \in 1..Len(cards) |-> sorted[i][2]]

SortByPointsDesc(cards) ==
  LET sorted == StableSortDesc([i \in 1..Len(cards) |-> <<getCardPoints(cards[i]), cards[i]>>])
  IN [i \in 1..Len(cards) |-> sorted[i][2]]

IsPowerCard(card, powerSuit) == card.suit = powerSuit \/ card.suit = DUNK

LedSuitOfFirstCard(playedCards, powerSuit) == playedCards[1].card.suit

LedSuitOf(playedCards, powerSuit) ==
  IF playedCards[1].card.suit = DUNK THEN powerSuit ELSE playedCards[1].card.suit

MatchesLed(card, ledSuit, powerSuit) ==
  card.suit = ledSuit \/ (card.suit = DUNK /\ powerSuit = ledSuit)

getValidCardsNoFollow(hand, playedCards, powerSuit) == hand

getValidCards(hand, playedCards, powerSuit) ==
  IF Len(playedCards) = 0 THEN hand
  ELSE LET ledSuit == LedSuitOf(playedCards, powerSuit)
           cardsOfLedSuit == SelectSeq(hand, LAMBDA c : MatchesLed(c, ledSuit, powerSuit))
       IN IF Len(cardsOfLedSuit) > 0 THEN cardsOfLedSuit ELSE hand

RECURSIVE CurrentWinnerFrom(_, _, _, _)
CurrentWinnerFrom(playedCards, powerSuit, i, winner) ==
  IF i > Len(playedCards) THEN winner
  ELSE LET current == playedCards[i]
           leadSuit == LedSuitOf(playedCards, powerSuit)
           currentValue == RankIndex(current.card.value)
           winnerValue == RankIndex(winner.card.value)
           currentIsPowerSuit == IsPowerCard(current.card, powerSuit)
           winnerIsPowerSuit == IsPowerCard(winner.card, powerSuit)
           next ==
             IF currentIsPowerSuit /\ ~ winnerIsPowerSuit THEN current
             ELSE IF ~ currentIsPowerSuit /\ winnerIsPowerSuit THEN winner
             ELSE IF currentIsPowerSuit /\ winnerIsPowerSuit
                  THEN (IF currentValue > winnerValue THEN current ELSE winner)
             ELSE IF current.card.suit = leadSuit /\ winner.card.suit = leadSuit
                  THEN (IF currentValue > winnerValue THEN current ELSE winner)
             ELSE IF current.card.suit = leadSuit /\ winner.card.suit # leadSuit THEN current
             ELSE winner
       IN CurrentWinnerFrom(playedCards, powerSuit, i + 1, next)

(* Defined for a non-empty trick (the source returns null for an empty one *)
(* and its callers test the length first).                                 *)
getCurrentWinner(playedCards, powerSuit) ==
  CurrentWinnerFrom(playedCards, powerSuit, 2, playedCards[1])

getLikelyTrickWinner(playedCards, powerSuit) ==
  CurrentWinnerFrom(playedCards, powerSuit, 2, playedCards[1])

(* selectAICard for a hand with at least one card.                         *)
selectAICard(aiPlayer, aiHand, playedCards, powerSuit) ==
  LET validCards == getValidCards(aiHand, playedCards, powerSuit)
  IN IF Len(playedCards) = 0
     THEN LET powerSuitCards == SelectSeq(validCards, LAMBDA c : IsPowerCard(c, powerSuit))
          IN IF Len(powerSuitCards) > 0 THEN SortByRankDesc(powerSuitCards)[1]
             ELSE SortByRankDesc(validCards)[1]
     ELSE
       LET leadSuit == LedSuitOf(playedCards, powerSuit)
           currentWinner == getCurrentWinner(playedCards, powerSuit)
           winnerValue == RankIndex(currentWinner.card.value)
           winnerIsPowerSuit == IsPowerCard(currentWinner.card, powerSuit)
           canWin(card) ==
             LET cardValue == RankIndex(card.value)
                 cardIsPowerSuit == IsPowerCard(card, powerSuit)
             IN IF cardIsPowerSuit /\ ~ winnerIsPowerSuit THEN TRUE
                ELSE IF ~ cardIsPowerSuit /\ winnerIsPowerSuit THEN FALSE
                ELSE IF cardIsPowerSuit /\ winnerIsPowerSuit THEN cardValue > winnerValue
                ELSE IF card.suit = leadSuit /\ currentWinner.card.suit = leadSuit
                     THEN cardValue > winnerValue
                ELSE IF card.suit = leadSuit /\ currentWinner.card.suit # leadSuit THEN TRUE
                ELSE FALSE
           winningCards == SelectSeq(validCards, canWin)
           likelyWinner == getLikelyTrickWinner(playedCards, powerSuit)
           isTeammateWinning == areTeammates(aiPlayer, likelyWinner.player)
           pointCards == SelectSeq(validCards, LAMBDA c : getCardPoints(c) > 0)
           nonPointCards == SelectSeq(validCards, LAMBDA c : getCardPoints(c) = 0)
       IN IF Len(winningCards) > 0 THEN SortByRankAsc(winningCards)[1]
          ELSE IF isTeammateWinning
               THEN (IF Len(pointCards) > 0 THEN SortByPointsDesc(pointCards)[1]
                     ELSE SortByRankAsc(validCards)[1])
          ELSE IF Len(nonPointCards) > 0 THEN SortByRankAsc(nonPointCards)[1]
          ELSE SortByRankAsc(pointCards)[1]

SameCard(a, b) == a.suit = b.suit /\ a.value = b.value

(* findIndex by suit and value; 0 stands for the source's -1.              *)
getCardIndexInHand(originalHand, cardToFind) ==
  IF \E i \in 1..Len(originalHand) : SameCard(originalHand[i], cardToFind)
  THEN CHOOSE i \in 1..Len(originalHand) :
         /\ SameCard(originalHand[i], cardToFind)
         /\ \A j \in 1..(i - 1) : ~ SameCard(originalHand[j], cardToFind)
  ELSE 0

RemoveAtHead(s, i) == Tail(s)

RemoveAt(s, i) == SubSeq(s, 1, i - 1) \o SubSeq(s, i + 1, Len(s))

manageKitty(hand, kitty, powerSuit) ==
  LET allCards == hand \o kitty
      keyOf(c) == (IF IsPowerCard(c, powerSuit) THEN 100 ELSE 0) + RankIndex(c.value)
      sorted == StableSortDesc([i \in 1..Len(allCards) |-> <<keyOf(allCards[i]), allCards[i]>>])
      sortedCards == [i \in 1..Len(allCards) |-> sorted[i][2]]
  IN [keep |-> SubSeq(sortedCards, 1, CARDS_PER_PLAYER),
      return |-> SubSeq(sortedCards, CARDS_PER_PLAYER + 1, Len(sortedCards))]

handleComputerKitty(computerPlayer, computerHand, kitty) ==
  LET powerSuit == chooseAIPowerSuit(computerHand \o kitty)
      kittyResult == manageKitty(computerHand, kitty, powerSuit)
  IN [newHand |-> kittyResult.keep, newKitty |-> kittyResult.return, powerSuit |-> powerSuit]

(* getSelectedCards rebuilds each selected card from its DOM element: suit *)
(* and value only, the points field is not set.                            *)
getSelectedCards(pool, selected) ==
  LET picked == SelectSeq([i \in 1..Len(pool) |-> <<i, pool[i]>>], LAMBDA e : e[1] \in selected)
  IN [i \in 1..Len(picked) |-> [suit |-> picked[i][2].suit, value |-> picked[i][2].value,
                                points |-> UNDEF]]

handleHumanKittyHandOnly(playerHand, kitty, selectedCards, chosenPowerSuit) ==
  LET isSelected(card) == \E i \in 1..Len(selectedCards) : SameCard(selectedCards[i], card)
  IN IF Len(selectedCards) # 5
     THEN [ok |-> FALSE, newHand |-> playerHand, newKitty |-> kitty, powerSuit |-> NULL]
     ELSE [ok |-> TRUE,
           newHand |-> SelectSeq(playerHand, LAMBDA c : ~ isSelected(c)),
           newKitty |-> selectedCards,
           powerSuit |-> chosenPowerSuit]

(* ok = FALSE stands for the thrown Error.                                 *)
handleHumanKitty(playerHand, kitty, selectedCards, chosenPowerSuit) ==
  LET combinedCards == playerHand \o kitty
      isSelected(card) == \E i \in 1..Len(selectedCards) : SameCard(selectedCards[i], card)
  IN IF Len(selectedCards) # 5
     THEN [ok |-> FALSE, newHand |-> playerHand, newKitty |-> kitty, powerSuit |-> NULL]
     ELSE [ok |-> TRUE,
           newHand |-> SelectSeq(combinedCards, LAMBDA c : ~ isSelected(c)),
           newKitty |-> selectedCards,
           powerSuit |-> chosenPowerSuit]

(* ------------------------ trick play (gameplay.js) --------------------- *)
(* Trick values doubled: the Dunk's 10.5 is 21.                            *)
EffectiveSuit(card, powerSuit) == IF card.suit = DUNK THEN powerSuit ELSE card.suit
EffectiveValueDunkHigh(card) == IF card.suit = DUNK THEN 29 ELSE 2 * card.value

EffectiveValue(card) == IF card.suit = DUNK THEN 21 ELSE 2 * card.value

BeatsByValue(ev, wv) == ev > wv

Beats(ev, wv) == (ev = 2 /\ wv # 2) \/ (ev # 2 /\ wv # 2 /\ ev > wv)

RECURSIVE TrickWinnerFrom(_, _, _, _, _)
TrickWinnerFrom(playedCards, powerSuit, ledSuit, i, w) ==
  IF i > Len(playedCards) THEN w.player
  ELSE LET card == playedCards[i].card
           es == EffectiveSuit(card, powerSuit)
           ev == EffectiveValue(card)
           me == [suit |-> es, value |-> ev, player |-> playedCards[i].player]
           next ==
             IF w.suit = powerSuit
             THEN (IF es = powerSuit /\ Beats(ev, w.value) THEN me ELSE w)
             ELSE IF es = powerSuit THEN me
             ELSE IF es = ledSuit /\ w.suit = ledSuit /\ Beats(ev, w.value) THEN me
             ELSE w
       IN TrickWinnerFrom(playedCards, powerSuit, ledSuit, i + 1, next)

determineTrickWinnerLedIsPower(playedCards, powerSuit, ledSuit) ==
  TrickWinnerFrom(playedCards, ledSuit, ledSuit, 2,
                  [suit |-> EffectiveSuit(playedCards[1].card, ledSuit),
                   value |-> EffectiveValue(playedCards[1].card),
                   player |-> playedCards[1].player])

(* Defined for a non-empty trick.                                          *)
determineTrickWinner(playedCards, powerSuit, ledSuit) ==
  TrickWinnerFrom(playedCards, powerSuit, ledSuit, 2,
                  [suit |-> EffectiveSuit(playedCards[1].card, powerSuit),
                   value |-> EffectiveValue(playedCards[1].card),
                   player |-> playedCards[1].player])

isCardPlayValid(cardData, playedCards, playerHand, powerSuit) ==
  IF Len(playedCards) = 0 THEN TRUE
  ELSE LET ledSuit == LedSuitOf(playedCards, powerSuit)
           cardsOfLedSuit == SelectSeq(playerHand, LAMBDA c : MatchesLed(c, ledSuit, powerSuit))
       IN IF Len(cardsOfLedSuit) > 0 THEN MatchesLed(cardData, ledSuit, powerSuit) ELSE TRUE

TeamOf(playerName) ==
  IF playerName = "Patricia" \/ playerName = "Jordan" THEN "team2"
  ELSE IF playerName = "Alex" \/ playerName = "You" THEN "team1"
  ELSE NULL

getPlayerHandIndex(playerName) ==
  CASE playerName = "Patricia" -> 0
    [] playerName = "Alex" -> 1
    [] playerName = "Jordan" -> 2
    [] playerName = "You" -> 3
    [] OTHER -> -1

(* Sum of card.points over the cards whose points field is positive.       *)
PointsIn(cards) ==
  SumSeq([i \in 1..Len(cards) |-> IF cards[i].points > 0 THEN cards[i].points ELSE 0])

(* ================= session controller (main.js, gameplay.js) =========== *)
VARIABLES
  currentPhase,   \* gameState.currentPhase
  currentHand,    \* gameState.currentHand, the round counter
  hands,          \* gameState.hands; hands[3] is also gameState.playerHand
  kitty,          \* gameState.kitty
  biddingState,   \* gameState.biddingState
  roundState,     \* gameState.roundState
  scores,         \* gameState.scores
  roundHistory,   \* gameState.roundHistory
  timers,         \* pending setTimeout callbacks, in firing order
  bidFormShown,   \* #humanBidForm is displayed
  bidNextShown,   \* the bidding section's Next button is displayed
  trickButton,    \* button in the gameplay section's right column
  outcome,        \* how the last request ended
  scoreUpdateShown, \* the score update section is displayed
  matchWinner,    \* the team the end-game modal was shown for
  api,            \* bidding state held by a direct caller of the engine
  apiResult,      \* result of that caller's last call
  apiCalls,       \* number of calls that caller has made
  trickCall,      \* a trick handed to the trick resolver, and its answer
  kittyCall,      \* a selection handed to handleHumanKitty, and its answer
  aiCall,         \* a hand and a high bid handed to chooseAIBid, and its answer
  cardCall,       \* a hand and a trick handed to selectAICard, and its answer
  takenCards      \* history: the cards of the tricks cleared from the table

vars == <<currentPhase, currentHand, hands, kitty, biddingState, roundState, scores,
          roundHistory, timers, bidFormShown, bidNextShown, trickButton, outcome,
          scoreUpdateShown, matchWinner, api, apiResult, apiCalls, trickCall, kittyCall,
          aiCall, cardCall, takenCards>>

gameVars == <<currentPhase, currentHand, hands, kitty, biddingState, roundState, scores,
              roundHistory, timers, bidFormShown, bidNextShown, trickButton, outcome,
              scoreUpdateShown, matchWinner>>

apiVars == <<api, apiResult, apiCalls, trickCall, kittyCall, aiCall, cardCall, takenCards>>

NullBidding == [null |-> TRUE]

InitialRoundState ==
  [currentBid |-> 150,
   bidWinner |-> "You",
   powerSuit |-> "orange",
   currentTrick |-> 0,
   trickLeader |-> "You",
   currentTurn |-> "You",
   turnOrder |-> playerOrder,
   playedCards |-> <<>>,
   trickWinners |-> <<>>,
   team1Score |-> 0,
   team2Score |-> 0,
   team1FinalScore |-> 0,
   team2FinalScore |-> 0]

NoResult == [op |-> "none", seat |-> NULL, amount |-> 0, before |-> NullBidding,
             ok |-> TRUE, error |-> NULL, out |-> NullBidding, inp |-> NullBidding]

GameInit ==
  /\ currentPhase = "welcome"
  /\ currentHand = 0
  /\ hands = [p \in 0..3 |-> <<>>]
  /\ kitty = <<>>
  /\ biddingState = NullBidding
  /\ roundState = InitialRoundState
  /\ scores = [team1 |-> 0, team2 |-> 0]
  /\ roundHistory = <<>>
  /\ timers = <<>>
  /\ bidFormShown = FALSE
  /\ bidNextShown = FALSE
  /\ trickButton = "none"
  /\ outcome = "none"
  /\ scoreUpdateShown = FALSE
  /\ matchWinner = NULL

NoTrickCall == [powerSuit |-> NULL, turn |-> NULL, playedCards |-> <<>>, ledSuit |-> NULL,
                winner |-> NULL]

NoKittyCall == [called |-> FALSE, playerHand |-> <<>>, kitty |-> <<>>, offered |-> <<>>,
                selectedCards |-> <<>>, ok |-> TRUE, newHand |-> <<>>, newKitty |-> <<>>]

NoAiCall == [called |-> FALSE, hand |-> <<>>, currentBid |-> 0, action |-> NULL, amount |-> 0]

NoCardCall ==
  [called |-> FALSE, aiPlayer |-> NULL, aiHand |-> <<>>, playedCards |-> <<>>,
   powerSuit |-> NULL, card |-> [suit |-> NULL, value |-> UNDEF, points |-> UNDEF]]

Init ==
  /\ GameInit
  /\ api = NullBidding
  /\ apiResult = NoResult
  /\ apiCalls = 0
  /\ trickCall = NoTrickCall
  /\ kittyCall = NoKittyCall
  /\ aiCall = NoAiCall
  /\ cardCall = NoCardCall
  /\ takenCards = <<>>

(* ------------------------------ timers --------------------------------- *)
Timer(fn, arg, delay) == [fn |-> fn, arg |-> arg, delay |-> delay]

(* A callback set now fires after every pending callback whose delay is    *)
(* not longer than its own; against a pending callback with a longer       *)
(* delay either order is possible.                                         *)
Insertions(q, t) ==
  LET blockers == {i \in 1..Len(q) : q[i].delay <= t.delay}
      first == IF blockers = {} THEN 1
               ELSE 1 + CHOOSE i \in blockers : \A j \in blockers : j <= i
  IN {SubSeq(q, 1, pos - 1) \o <<t>> \o SubSeq(q, pos, Len(q)) : pos \in first..(Len(q) + 1)}

(* --------------------------- round set-up ------------------------------ *)
handleStartButtonClick(k) ==
  /\ currentPhase = "welcome"
  \* initializeNewGame
  /\ scores' = [team1 |-> 0, team2 |-> 0]
  \* initializeNewRound
  /\ currentHand' = 0 + 1
  /\ hands' = createNewGame(k).hands
  /\ kitty' = createNewGame(k).kitty
  /\ roundState' = InitialRoundState
  /\ trickButton' = "none"
  /\ currentPhase' = "dealing"
  /\ outcome' = "ok"
  /\ UNCHANGED <<biddingState, roundHistory, timers, bidFormShown, bidNextShown>>
  /\ UNCHANGED <<scoreUpdateShown, matchWinner, apiVars>>

(* ------------------------------ bidding -------------------------------- *)
processNextBidWinnerIsCurrent(bs, q) ==
  IF isBiddingComplete(bs)
  THEN /\ roundState' = [roundState EXCEPT
                           !.currentBid = getBiddingResult(bs).winningBid,
                           !.bidWinner = getCurrentBidder(bs)]
       /\ bidFormShown' = FALSE
       /\ timers' \in Insertions(q, Timer("showBidNext", NULL, 1000))
  ELSE IF getCurrentBidder(bs) = "You"
  THEN /\ bidFormShown' = TRUE
       /\ timers' = q
       /\ UNCHANGED roundState
  ELSE /\ timers' \in Insertions(q, Timer("aiBid", getCurrentBidder(bs), 1000))
       /\ UNCHANGED <<roundState, bidFormShown>>

(* processNextBid on the bidding state bs, with q the callbacks that stay  *)
(* pending; sets roundState, bidFormShown and timers.                      *)
processNextBid(bs, q) ==
  IF isBiddingComplete(bs)
  THEN \* handleBiddingComplete
       /\ roundState' = [roundState EXCEPT
                           !.currentBid = getBiddingResult(bs).winningBid,
                           !.bidWinner = getBiddingResult(bs).winner]
       /\ bidFormShown' = FALSE
       /\ timers' \in Insertions(q, Timer("showBidNext", NULL, 1000))
  ELSE IF getCurrentBidder(bs) = "You"
  THEN /\ bidFormShown' = TRUE
       /\ timers' = q
       /\ UNCHANGED roundState
  ELSE \* processAIBid
       /\ timers' \in Insertions(q, Timer("aiBid", getCurrentBidder(bs), 1000))
       /\ UNCHANGED <<roundState, bidFormShown>>

handleDealingNextClick ==
  /\ currentPhase = "dealing"
  /\ currentPhase' = "bidding"
  /\ biddingState' = startBiddingRound(currentHand)
  /\ processNextBid(startBiddingRound(currentHand), timers)
  /\ outcome' = "ok"
  /\ UNCHANGED <<currentHand, hands, kitty, scores, roundHistory, bidNextShown, trickButton>>
  /\ UNCHANGED <<scoreUpdateShown, matchWinner, apiVars>>

FireAIBid ==
  /\ timers # <<>>
  /\ Head(timers).fn = "aiBid"
  /\ \E aiPlayerName \in {Head(timers).arg} :
     \E aiDecision \in {makeAIBidDecision(aiPlayerName,
                            hands[getPlayerHandIndex(aiPlayerName)], biddingState)} :
     \E r \in {IF aiDecision.action = "bid"
               THEN makeBid(biddingState, aiPlayerName, aiDecision.amount)
               ELSE passBid(biddingState, aiPlayerName)} :
       IF r.ok
       THEN /\ biddingState' = r.out
            /\ timers' \in Insertions(Tail(timers), Timer("processNextBid", NULL, 500))
       ELSE \* the Error leaves the callback; nothing is scheduled
            /\ biddingState' = r.inp
            /\ timers' = Tail(timers)
  /\ UNCHANGED <<currentPhase, currentHand, hands, kitty, roundState, scores, roundHistory,
                 bidFormShown, bidNextShown, trickButton, outcome>>
  /\ UNCHANGED <<scoreUpdateShown, matchWinner, apiVars>>

FireProcessNextBid ==
  /\ timers # <<>>
  /\ Head(timers).fn = "processNextBid"
  /\ processNextBid(biddingState, Tail(timers))
  /\ UNCHANGED <<currentPhase, currentHand, hands, kitty, biddingState, scores, roundHistory,
                 bidNextShown, trickButton, outcome>>
  /\ UNCHANGED <<scoreUpdateShown, matchWinner, apiVars>>

(* Amounts the human types into the bid form.                              *)
BidInputs(highestBid) ==
  {highestBid + 5 * n : n \in 0..MaxRaiseSteps} \cup {highestBid + 3, 65, 70, 200, 205}

HumanBidInputs == IF biddingState = NullBidding THEN {} ELSE BidInputs(biddingState.highestBid)

handleBidSubmit(bidAmount) ==
  /\ currentPhase = "bidding"
  /\ bidFormShown
  /\ LET r == makeBid(biddingState, "You", bidAmount)
     IN IF r.ok
        THEN /\ biddingState' = r.out
             /\ bidFormShown' = FALSE
             /\ outcome' = "ok"
             /\ timers' \in Insertions(timers, Timer("processNextBid", NULL, 500))
        ELSE \* catch: showBidError(error.message)
             /\ biddingState' = r.inp
             /\ outcome' = "INVALID_BID"
             /\ UNCHANGED <<bidFormShown, timers>>
  /\ UNCHANGED <<currentPhase, currentHand, hands, kitty, roundState, scores, roundHistory,
                 bidNextShown, trickButton>>
  /\ UNCHANGED <<scoreUpdateShown, matchWinner, apiVars>>

handlePassClick ==
  /\ currentPhase = "bidding"
  /\ bidFormShown
  /\ biddingState' = passBid(biddingState, "You").out
  /\ bidFormShown' = FALSE
  /\ outcome' = "ok"
  /\ timers' \in Insertions(timers, Timer("processNextBid", NULL, 500))
  /\ UNCHANGED <<currentPhase, currentHand, hands, kitty, roundState, scores, roundHistory,
                 bidNextShown, trickButton>>
  /\ UNCHANGED <<scoreUpdateShown, matchWinner, apiVars>>

FireShowBidNext ==
  /\ timers # <<>>
  /\ Head(timers).fn = "showBidNext"
  /\ timers' = Tail(timers)
  /\ bidNextShown' = TRUE
  /\ UNCHANGED <<currentPhase, currentHand, hands, kitty, biddingState, roundState, scores,
                 roundHistory, bidFormShown, trickButton, outcome>>
  /\ UNCHANGED <<scoreUpdateShown, matchWinner, apiVars>>

(* ------------------------------- kitty --------------------------------- *)
handleBiddingNextClick ==
  /\ currentPhase = "bidding"
  /\ bidNextShown
  /\ currentPhase' = "kitty"
  /\ bidNextShown' = FALSE
  /\ outcome' = "ok"
  /\ IF roundState.bidWinner \in {"Patricia", "Alex", "Jordan"}
     THEN LET computerPlayer == roundState.bidWinner
              computerHandIndex == getPlayerHandIndex(computerPlayer)
              kittyResult == handleComputerKitty(computerPlayer, hands[computerHandIndex], kitty)
          IN /\ hands' = [hands EXCEPT ![computerHandIndex] = kittyResult.newHand]
             /\ kitty' = kittyResult.newKitty
             /\ roundState' = [roundState EXCEPT !.powerSuit = kittyResult.powerSuit]
     ELSE \* human declarer: initializeHumanKitty only sets up the selection interface;
          \* no winner: handleComputerKitty throws on the missing hand
          UNCHANGED <<hands, kitty, roundState>>
  /\ UNCHANGED <<currentHand, biddingState, scores, roundHistory, timers, bidFormShown,
                 trickButton>>
  /\ UNCHANGED <<scoreUpdateShown, matchWinner, apiVars>>

(* Sets of five cards the human marks in the pool of hand and kitty: the   *)
(* kitty as dealt, or five neighbouring cards up to MaxKittyShift places   *)
(* towards the hand.                                                       *)
KittySelections(poolSize) ==
  {(poolSize - KITTY_SIZE + 1 - n)..(poolSize - n) : n \in 0..MaxKittyShift}

(* Selections of fewer than five cards: none, or the last four of the      *)
(* pool (toggleCardSelection lets no sixth card be marked).                *)
ShortKittySelections(poolSize) == {{}, (poolSize - KITTY_SIZE + 2)..poolSize}

startAITurn(q, currentTurn) == Insertions(q, Timer("playAICard", currentTurn, 500))

handleKittyNextClick(selected, powerSuit) ==
  /\ currentPhase = "kitty"
  /\ roundState.bidWinner \in Seats
  /\ IF roundState.bidWinner = "You"
     THEN /\ selected \in KittySelections(Len(hands[3]) + Len(kitty))
                          \cup ShortKittySelections(Len(hands[3]) + Len(kitty))
          /\ LET selectedCards == getSelectedCards(hands[3] \o kitty, selected)
                 kittyResult == handleHumanKitty(hands[3], kitty, selectedCards, powerSuit)
             IN IF Len(selectedCards) # 5 \/ powerSuit = NULL
                THEN \* console.error('Invalid human kitty selection') and return
                     /\ outcome' = "INVALID_KITTY_SELECTION"
                     /\ UNCHANGED <<hands, kitty, roundState, currentPhase, timers>>
                ELSE /\ hands' = [hands EXCEPT ![3] = kittyResult.newHand]
                     /\ kitty' = kittyResult.newKitty
                     /\ roundState' = [roundState EXCEPT
                                         !.powerSuit = kittyResult.powerSuit,
                                         !.trickLeader = roundState.bidWinner,
                                         !.currentTurn = roundState.bidWinner]
                     /\ currentPhase' = "gameplay"
                     /\ outcome' = "ok"
                     \* initializeCardPlaying: the human leads, no callback is set
                     /\ timers' = timers
     ELSE /\ selected = {}
          /\ powerSuit = roundState.powerSuit
          /\ roundState' = [roundState EXCEPT
                              !.trickLeader = roundState.bidWinner,
                              !.currentTurn = roundState.bidWinner]
          /\ currentPhase' = "gameplay"
          /\ outcome' = "ok"
          \* initializeCardPlaying
          /\ timers' \in startAITurn(timers, roundState.bidWinner)
          /\ UNCHANGED <<hands, kitty>>
  /\ UNCHANGED <<currentHand, biddingState, scores, roundHistory, bidFormShown, bidNextShown,
                 trickButton>>
  /\ UNCHANGED <<scoreUpdateShown, matchWinner, apiVars>>

(* ----------------------------- card play ------------------------------- *)
LAST_TRICK_INDEX == CARDS_PER_PLAYER - 1

advanceToNextTurn(currentTurn) == playerOrder[((getPlayerHandIndex(currentTurn) + 1) % 4) + 1]

(* trackTrickPoints: the round state with the trick's points credited.     *)
trackTrickPoints(rs, playedCards, trickWinner) ==
  LET trickPoints == PointsIn([i \in 1..Len(playedCards) |-> playedCards[i].card])
  IN IF TeamOf(trickWinner) = "team1" THEN [rs EXCEPT !.team1Score = @ + trickPoints]
     ELSE IF TeamOf(trickWinner) = "team2" THEN [rs EXCEPT !.team2Score = @ + trickPoints]
     ELSE rs

(* updateGameStateAfterCardPlay / updateGameStateAfterAICardPlay with the  *)
(* card already taken from the hand; q are the callbacks that stay pending. *)
updateGameStateAfterCardPlay(cardData, player, q) ==
  LET playedCards == Append(roundState.playedCards, [card |-> cardData, player |-> player])
      turned == [roundState EXCEPT
                   !.playedCards = playedCards,
                   !.currentTurn = advanceToNextTurn(roundState.currentTurn)]
  IN IF Len(playedCards) = 4
     THEN \* completeTrick
          LET ledSuit == LedSuitOf(playedCards, roundState.powerSuit)
              trickWinner == determineTrickWinner(playedCards, roundState.powerSuit, ledSuit)
          IN /\ roundState' = trackTrickPoints(turned, playedCards, trickWinner)
             /\ timers' \in Insertions(q, Timer("showNextTrick", NULL, 1000))
     ELSE /\ roundState' = turned
          /\ IF turned.currentTurn # "You"
             THEN timers' \in startAITurn(q, turned.currentTurn)
             ELSE timers' = q

(* The human clicks the i-th card of the hand.                             *)
handleCardClick(i) ==
  /\ currentPhase = "gameplay"
  /\ i \in 1..Len(hands[3])
  /\ LET cardData == hands[3][i]
     IN IF roundState.currentTurn # "You"
        THEN \* console.log and return
             /\ outcome' = "ignored"
             /\ UNCHANGED <<hands, roundState, timers>>
        ELSE IF ~ isCardPlayValid(cardData, roundState.playedCards, hands[3],
                                  roundState.powerSuit)
        THEN \* console.log and return
             /\ outcome' = "ignored"
             /\ UNCHANGED <<hands, roundState, timers>>
        ELSE /\ hands' = [hands EXCEPT ![3] = RemoveAt(@, getCardIndexInHand(@, cardData))]
             /\ updateGameStateAfterCardPlay(cardData, "You", timers)
             /\ outcome' = "ok"
  /\ UNCHANGED <<currentPhase, currentHand, kitty, biddingState, scores, roundHistory,
                 bidFormShown, bidNextShown, trickButton>>
  /\ UNCHANGED <<scoreUpdateShown, matchWinner, apiVars>>

playAICard ==
  /\ timers # <<>>
  /\ Head(timers).fn = "playAICard"
  /\ LET aiPlayer == Head(timers).arg
         aiHandIndex == getPlayerHandIndex(aiPlayer)
     IN IF aiHandIndex \notin 0..2 \/ Len(hands[aiHandIndex]) = 0
        THEN \* console.error and return
             /\ timers' = Tail(timers)
             /\ UNCHANGED <<hands, roundState>>
        ELSE LET aiHand == hands[aiHandIndex]
                 cardData == selectAICard(aiPlayer, aiHand, roundState.playedCards,
                                          roundState.powerSuit)
                 cardIndex == getCardIndexInHand(aiHand, cardData)
             IN /\ hands' = [hands EXCEPT ![aiHandIndex] = RemoveAt(@, cardIndex)]
                /\ updateGameStateAfterCardPlay(cardData, aiPlayer, Tail(timers))
  /\ UNCHANGED <<currentPhase, currentHand, kitty, biddingState, scores, roundHistory,
                 bidFormShown, bidNextShown, trickButton, outcome>>
  /\ UNCHANGED <<scoreUpdateShown, matchWinner, apiVars>>

FireShowNextTrickPublishingScores ==
  /\ timers # <<>>
  /\ Head(timers).fn = "showNextTrick"
  /\ timers' = Tail(timers)
  /\ trickButton' = "next"
  /\ scores' = [team1 |-> roundState.team1Score, team2 |-> roundState.team2Score]
  /\ UNCHANGED <<currentPhase, currentHand, hands, kitty, biddingState, roundState,
                 roundHistory, bidFormShown, bidNextShown, outcome>>
  /\ UNCHANGED <<scoreUpdateShown, matchWinner, apiVars>>

FireShowNextTrick ==
  /\ timers # <<>>
  /\ Head(timers).fn = "showNextTrick"
  /\ timers' = Tail(timers)
  /\ trickButton' = "next"
  /\ UNCHANGED <<currentPhase, currentHand, hands, kitty, biddingState, roundState, scores,
                 roundHistory, bidFormShown, bidNextShown, outcome>>
  /\ UNCHANGED <<scoreUpdateShown, matchWinner, apiVars>>

(* handleFinalTrickRewards: kitty points and the bonus go to the team of   *)
(* the final trick's winner.  Its `gameState.kitty = []' is made on the    *)
(* copy returned by getGameState, so the kitty itself stays as it is.      *)
handleFinalTrickRewards(rs, finalTrickWinner) ==
  LET totalBonusPoints == PointsIn(kitty) + FINAL_TRICK_BONUS
  IN IF TeamOf(finalTrickWinner) = "team1" THEN [rs EXCEPT !.team1Score = @ + totalBonusPoints]
     ELSE IF TeamOf(finalTrickWinner) = "team2" THEN [rs EXCEPT !.team2Score = @ + totalBonusPoints]
     ELSE rs

proceedToNextTrickNoFinal ==
  /\ trickButton = "next"
  /\ roundState.playedCards # <<>>
  /\ LET playedCards == roundState.playedCards
         ledSuit == LedSuitOf(playedCards, roundState.powerSuit)
         trickWinner == determineTrickWinner(playedCards, roundState.powerSuit, ledSuit)
         recorded == [roundState EXCEPT !.trickWinners = Append(@, trickWinner)]
     IN /\ roundState' = [recorded EXCEPT
                            !.trickLeader = trickWinner,
                            !.currentTurn = trickWinner,
                            !.currentTrick = @ + 1,
                            !.playedCards = <<>>]
        /\ trickButton' = IF roundState.currentTrick = LAST_TRICK_INDEX THEN "final" ELSE "none"
        /\ takenCards' = takenCards \o [i \in 1..Len(playedCards) |-> playedCards[i].card]
        /\ IF trickWinner # "You"
           THEN timers' \in startAITurn(timers, trickWinner)
           ELSE timers' = timers
  /\ outcome' = "ok"
  /\ UNCHANGED <<currentPhase, currentHand, hands, kitty, biddingState, scores, roundHistory,
                 bidFormShown, bidNextShown>>
  /\ UNCHANGED <<scoreUpdateShown, matchWinner, api, apiResult, apiCalls, trickCall,
                 kittyCall, aiCall, cardCall>>

proceedToNextTrick ==
  /\ trickButton = "next"
  /\ roundState.playedCards # <<>>
  /\ LET playedCards == roundState.playedCards
         ledSuit == LedSuitOf(playedCards, roundState.powerSuit)
         trickWinner == determineTrickWinner(playedCards, roundState.powerSuit, ledSuit)
         recorded == [roundState EXCEPT !.trickWinners = Append(@, trickWinner)]
     IN IF roundState.currentTrick = LAST_TRICK_INDEX
        THEN /\ roundState' = handleFinalTrickRewards(recorded, trickWinner)
             /\ trickButton' = "final"
             /\ timers' = timers
             /\ takenCards' = takenCards
        ELSE /\ roundState' = [recorded EXCEPT
                                 !.trickLeader = trickWinner,
                                 !.currentTurn = trickWinner,
                                 !.currentTrick = @ + 1,
                                 !.playedCards = <<>>]
             /\ trickButton' = "none"
             /\ takenCards' = takenCards \o [i \in 1..Len(playedCards) |-> playedCards[i].card]
             /\ IF trickWinner # "You"
                THEN timers' \in startAITurn(timers, trickWinner)
                ELSE timers' = timers
  /\ outcome' = "ok"
  /\ UNCHANGED <<currentPhase, currentHand, hands, kitty, biddingState, scores, roundHistory,
                 bidFormShown, bidNextShown>>
  /\ UNCHANGED <<scoreUpdateShown, matchWinner, api, apiResult, apiCalls, trickCall,
                 kittyCall, aiCall, cardCall>>

(* calculateEndOfRoundScores as a function of the round state and the      *)
(* cumulative scores; yields the final round scores and the new totals.    *)
calculateEndOfRoundScoresNoPenalty(rs, total) ==
  [team1Final |-> rs.team1Score,
   team2Final |-> rs.team2Score,
   team1Total |-> total.team1 + rs.team1Score,
   team2Total |-> total.team2 + rs.team2Score,
   bidMade |-> TRUE]

calculateEndOfRoundScoresTwice(rs, total) ==
  LET team1Bids == rs.bidWinner = "Alex" \/ rs.bidWinner = "You"
      biddingTeamEarnedPoints == IF team1Bids THEN rs.team1Score ELSE rs.team2Score
      nonBiddingTeamEarnedPoints == IF team1Bids THEN rs.team2Score ELSE rs.team1Score
      biddingTeamFinalScore == IF biddingTeamEarnedPoints >= rs.currentBid
                               THEN biddingTeamEarnedPoints
                               ELSE 0 - rs.currentBid
      team1Final == IF team1Bids THEN biddingTeamFinalScore ELSE nonBiddingTeamEarnedPoints
      team2Final == IF team1Bids THEN nonBiddingTeamEarnedPoints ELSE biddingTeamFinalScore
  IN [team1Final |-> team1Final,
      team2Final |-> team2Final,
      team1Total |-> total.team1 + 2 * team1Final,
      team2Total |-> total.team2 + 2 * team2Final,
      bidMade |-> biddingTeamEarnedPoints >= rs.currentBid]

calculateEndOfRoundScores(rs, total) ==
  LET team1Bids == rs.bidWinner = "Alex" \/ rs.bidWinner = "You"
      biddingTeamEarnedPoints == IF team1Bids THEN rs.team1Score ELSE rs.team2Score
      nonBiddingTeamEarnedPoints == IF team1Bids THEN rs.team2Score ELSE rs.team1Score
      biddingTeamFinalScore == IF biddingTeamEarnedPoints >= rs.currentBid
                               THEN biddingTeamEarnedPoints
                               ELSE 0 - rs.currentBid
      team1Final == IF team1Bids THEN biddingTeamFinalScore ELSE nonBiddingTeamEarnedPoints
      team2Final == IF team1Bids THEN nonBiddingTeamEarnedPoints ELSE biddingTeamFinalScore
  IN [team1Final |-> team1Final,
      team2Final |-> team2Final,
      team1Total |-> total.team1 + team1Final,
      team2Total |-> total.team2 + team2Final,
      bidMade |-> biddingTeamEarnedPoints >= rs.currentBid]

transitionToRoundScoring ==
  /\ currentPhase = "gameplay"
  /\ trickButton = "final"
  /\ LET r == calculateEndOfRoundScores(roundState, scores)
     IN /\ roundState' = [roundState EXCEPT
                            !.team1FinalScore = r.team1Final,
                            !.team2FinalScore = r.team2Final]
        /\ scores' = [team1 |-> r.team1Total, team2 |-> r.team2Total]
        /\ roundHistory' = Append(roundHistory,
                                  [roundNumber |-> currentHand,
                                   bidWinner |-> roundState.bidWinner,
                                   bidAmount |-> roundState.currentBid,
                                   team1Earned |-> roundState.team1Score,
                                   team2Earned |-> roundState.team2Score,
                                   team1Final |-> r.team1Final,
                                   team2Final |-> r.team2Final,
                                   team1Total |-> r.team1Total,
                                   team2Total |-> r.team2Total,
                                   bidMade |-> r.bidMade])
  /\ currentPhase' = "round_scoring"
  /\ trickButton' = "none"
  /\ outcome' = "ok"
  /\ UNCHANGED <<currentHand, hands, kitty, biddingState, timers, bidFormShown, bidNextShown>>
  /\ UNCHANGED <<scoreUpdateShown, matchWinner, apiVars>>

(* --------------------------- the controller ---------------------------- *)
Next ==
  \/ \E k \in 1..NumShuffles : handleStartButtonClick(k)
  \/ handleDealingNextClick
  \/ FireAIBid
  \/ FireProcessNextBid
  \/ \E bidAmount \in HumanBidInputs : handleBidSubmit(bidAmount)
  \/ handlePassClick
  \/ FireShowBidNext
  \/ handleBiddingNextClick
  \/ \E selected \in KittySelections(CARDS_PER_PLAYER + KITTY_SIZE)
                     \cup ShortKittySelections(CARDS_PER_PLAYER + KITTY_SIZE) :
       \E powerSuit \in {SUITS[i] : i \in 1..4} \cup {NULL} :
         handleKittyNextClick(selected, powerSuit)
  \/ \E i \in 1..CARDS_PER_PLAYER : handleCardClick(i)
  \/ playAICard
  \/ FireShowNextTrick
  \/ proceedToNextTrick
  \/ transitionToRoundScoring

Spec == Init /\ [][Next]_vars

(* ---------------------- the auction on its own ------------------------- *)
(* The controller from the welcome screen to the end of the auction.       *)
AuctionNext ==
  \/ \E k \in 1..NumShuffles : handleStartButtonClick(k)
  \/ handleDealingNextClick
  \/ FireAIBid
  \/ FireProcessNextBid
  \/ \E bidAmount \in HumanBidInputs : handleBidSubmit(bidAmount)
  \/ handlePassClick
  \/ FireShowBidNext

HumanBidsOrPasses ==
  \/ handlePassClick
  \/ \E bidAmount \in HumanBidInputs : handleBidSubmit(bidAmount) /\ outcome' = "ok"

(* Callbacks that were set do fire, and a human shown the bid form ends up *)
(* passing or entering an acceptable bid.                                  *)
AuctionSpec ==
  /\ Init
  /\ [][AuctionNext]_vars
  /\ WF_vars(FireAIBid)
  /\ WF_vars(FireProcessNextBid)
  /\ WF_vars(FireShowBidNext)
  /\ WF_vars(HumanBidsOrPasses)

(* ---------------------- the auction of any round ---------------------- *)
(* A round just dealt by initializeNewRound, the first or a later one: the *)
(* round number decides which seat bids first, and the fourth round is the *)
(* first in which the human does.  The scores, the records and the         *)
(* finished auction of the earlier rounds are left out; the auction does   *)
(* not read them and initializeBiddingPhase replaces the bidding state.    *)
RoundInit ==
  /\ currentPhase = "dealing"
  /\ \E n \in 1..4 : currentHand = n
  /\ \E k \in 1..NumShuffles :
       /\ hands = createNewGame(k).hands
       /\ kitty = createNewGame(k).kitty
  /\ biddingState = NullBidding
  /\ roundState = InitialRoundState
  /\ scores = [team1 |-> 0, team2 |-> 0]
  /\ roundHistory = <<>>
  /\ timers = <<>>
  /\ bidFormShown = FALSE
  /\ bidNextShown = FALSE
  /\ trickButton = "none"
  /\ outcome = "ok"
  /\ scoreUpdateShown = FALSE
  /\ matchWinner = NULL
  /\ api = NullBidding
  /\ apiResult = NoResult
  /\ apiCalls = 0
  /\ trickCall = NoTrickCall
  /\ kittyCall = NoKittyCall
  /\ aiCall = NoAiCall
  /\ cardCall = NoCardCall
  /\ takenCards = <<>>

RoundNext ==
  \/ handleDealingNextClick
  \/ FireAIBid
  \/ FireProcessNextBid
  \/ \E bidAmount \in HumanBidInputs : handleBidSubmit(bidAmount)
  \/ handlePassClick
  \/ FireShowBidNext

RoundSpec == RoundInit /\ [][RoundNext]_vars

(* ------------------ the bidding engine called directly ----------------- *)
(* A caller holding a bidding state calls makeBid and passBid for any seat *)
(* with any amount, keeping the returned state, or the state it passed in  *)
(* when the call throws.                                                   *)
ApiInit ==
  /\ GameInit
  /\ \E roundNumber \in 1..4 : api = startBiddingRound(roundNumber)
  /\ apiResult = NoResult
  /\ apiCalls = 0
  /\ trickCall = NoTrickCall
  /\ kittyCall = NoKittyCall
  /\ aiCall = NoAiCall
  /\ cardCall = NoCardCall
  /\ takenCards = <<>>

ApiMakeBid(playerName, bidAmount) ==
  /\ apiCalls < MaxApiCalls
  /\ ~ isBiddingComplete(api)
  /\ LET r == makeBid(api, playerName, bidAmount)
     IN /\ apiResult' = [op |-> "bid", seat |-> playerName, amount |-> bidAmount,
                         before |-> api, ok |-> r.ok,
                         error |-> IF r.ok THEN NULL ELSE "INVALID_BID",
                         out |-> r.out, inp |-> r.inp]
        /\ api' = IF r.ok THEN r.out ELSE r.inp
  /\ apiCalls' = apiCalls + 1
  /\ UNCHANGED <<gameVars, trickCall, kittyCall, aiCall, cardCall, takenCards>>

ApiPassBid(playerName) ==
  /\ apiCalls < MaxApiCalls
  /\ ~ isBiddingComplete(api)
  /\ LET r == passBid(api, playerName)
     IN /\ apiResult' = [op |-> "pass", seat |-> playerName, amount |-> 0,
                         before |-> api, ok |-> r.ok, error |-> NULL,
                         out |-> r.out, inp |-> r.inp]
        /\ api' = r.out
  /\ apiCalls' = apiCalls + 1
  /\ UNCHANGED <<gameVars, trickCall, kittyCall, aiCall, cardCall, takenCards>>

ApiNext ==
  \/ \E playerName \in Seats : \E bidAmount \in BidInputs(api.highestBid) :
       ApiMakeBid(playerName, bidAmount)
  \/ \E playerName \in Seats : ApiPassBid(playerName)

BidSpec == ApiInit /\ [][ApiNext]_vars

(* ------------------------ the end of a round --------------------------- *)
handleRoundScoringNextClick ==
  /\ currentPhase = "round_scoring"
  /\ ~ scoreUpdateShown
  /\ scoreUpdateShown' = TRUE
  /\ outcome' = "ok"
  /\ UNCHANGED <<currentPhase, currentHand, hands, kitty, biddingState, roundState, scores,
                 roundHistory, timers, bidFormShown, bidNextShown, trickButton, matchWinner>>
  /\ UNCHANGED apiVars

MatchWinnerOfFirstTeam(total, lastRound) ==
  IF total.team1 >= WINNING_SCORE THEN "team1" ELSE "team2"

MatchWinnerOfNoTieBreak(total, lastRound) ==
  IF total.team1 >= WINNING_SCORE /\ total.team2 >= WINNING_SCORE
  THEN IF total.team1 > total.team2 THEN "team1" ELSE "team2"
  ELSE IF total.team1 >= WINNING_SCORE THEN "team1"
  ELSE "team2"

(* The winner handed to showEndGameModal.                                  *)
MatchWinnerOf(total, lastRound) ==
  IF total.team1 >= WINNING_SCORE /\ total.team2 >= WINNING_SCORE
  THEN IF total.team1 > total.team2 THEN "team1"
       ELSE IF total.team2 > total.team1 THEN "team2"
       ELSE IF lastRound.team1Final > lastRound.team2Final THEN "team1"
       ELSE "team2"
  ELSE IF total.team1 >= WINNING_SCORE THEN "team1"
  ELSE "team2"

(* The score update section's Next button: the end of the match, or the    *)
(* next round dealt from the k-th shuffle.                                 *)
handleScoreUpdateNextClick(k) ==
  /\ scoreUpdateShown
  /\ IF scores.team1 >= WINNING_SCORE \/ scores.team2 >= WINNING_SCORE
     THEN /\ currentPhase' = "end"
          /\ matchWinner' = MatchWinnerOf(scores, roundHistory[Len(roundHistory)])
          /\ UNCHANGED <<currentHand, hands, kitty, roundState, trickButton, scoreUpdateShown>>
     ELSE \* initializeNewRound
          /\ scoreUpdateShown' = FALSE
          /\ currentHand' = currentHand + 1
          /\ hands' = createNewGame(k).hands
          /\ kitty' = createNewGame(k).kitty
          /\ roundState' = InitialRoundState
          /\ trickButton' = "none"
          /\ currentPhase' = "dealing"
          /\ UNCHANGED matchWinner
  /\ outcome' = "ok"
  /\ UNCHANGED <<biddingState, scores, roundHistory, timers, bidFormShown, bidNextShown>>
  /\ UNCHANGED apiVars

(* A match in progress whose current round has been played to its last     *)
(* trick: the cumulative scores of the earlier rounds, the declarer, the   *)
(* bid and the points the teams captured in the round are drawn; the       *)
(* records of the earlier rounds are left out.                             *)
MatchInit ==
  /\ currentPhase = "gameplay"
  /\ trickButton = "final"
  /\ currentHand = 2 * MaxScoreSteps
  /\ hands = [p \in 0..3 |-> <<>>]
  /\ kitty = createNewGame(1).kitty
  /\ biddingState = NullBidding
  /\ \E a, b \in 1..MaxScoreSteps :
       scores = [team1 |-> WINNING_SCORE - 50 * a, team2 |-> WINNING_SCORE - 50 * b]
  /\ \E bidWinner \in Seats : \E currentBid \in {MIN_BID, MAX_BID} : \E m \in 0..4 :
       roundState = [InitialRoundState EXCEPT
                       !.bidWinner = bidWinner,
                       !.currentBid = currentBid,
                       !.trickLeader = bidWinner,
                       !.currentTurn = bidWinner,
                       !.currentTrick = LAST_TRICK_INDEX,
                       !.team1Score = 50 * m,
                       !.team2Score = ROUND_POINTS - 50 * m]
  /\ roundHistory = <<>>
  /\ timers = <<>>
  /\ bidFormShown = FALSE
  /\ bidNextShown = FALSE
  /\ outcome = "none"
  /\ scoreUpdateShown = FALSE
  /\ matchWinner = NULL
  /\ api = NullBidding
  /\ apiResult = NoResult
  /\ apiCalls = 0
  /\ trickCall = NoTrickCall
  /\ kittyCall = NoKittyCall
  /\ aiCall = NoAiCall
  /\ cardCall = NoCardCall
  /\ takenCards = <<>>

MatchNext ==
  \/ transitionToRoundScoring
  \/ handleRoundScoringNextClick
  \/ \E k \in 1..NumShuffles : handleScoreUpdateNextClick(k)

MatchSpec == MatchInit /\ [][MatchNext]_vars

(* ------------------ the trick resolver called directly ----------------- *)
(* A caller builds a trick card by card, the seats playing in turn from    *)
(* any leader under any power suit, and asks determineTrickWinner for the  *)
(* winner of the cards played so far, with the led suit worked out as      *)
(* completeTrick does.  The cards are the Dunk, the power suit's first     *)
(* NumTrickRanks ranks of TrickRankOrder and the other suits' first        *)
(* NumOffRanks ranks.                                                      *)
TrickRankOrder == <<1, 14, 10, 11, 2, 12, 13, 5, 3, 4, 6, 7, 8, 9>>

TrickCards(powerSuit) ==
  {createCard(powerSuit, TrickRankOrder[i]) : i \in 1..NumTrickRanks}
  \cup {createCard(DUNK, D)}
  \cup {createCard(SUITS[s], TrickRankOrder[i]) :
          s \in {n \in 1..Len(SUITS) : SUITS[n] # powerSuit}, i \in 1..NumOffRanks}

TrickInit ==
  /\ GameInit
  /\ api = NullBidding
  /\ apiResult = NoResult
  /\ apiCalls = 0
  /\ \E s \in 1..Len(SUITS) : \E leader \in Seats :
       trickCall = [NoTrickCall EXCEPT !.powerSuit = SUITS[s], !.turn = leader]
  /\ kittyCall = NoKittyCall
  /\ aiCall = NoAiCall
  /\ cardCall = NoCardCall
  /\ takenCards = <<>>

ResolveTrick(card) ==
  /\ Len(trickCall.playedCards) < 4
  /\ \A i \in 1..Len(trickCall.playedCards) : trickCall.playedCards[i].card # card
  /\ LET playedCards == Append(trickCall.playedCards, [card |-> card, player |-> trickCall.turn])
         ledSuit == LedSuitOf(playedCards, trickCall.powerSuit)
     IN trickCall' = [trickCall EXCEPT
                        !.playedCards = playedCards,
                        !.turn = advanceToNextTurn(@),
                        !.ledSuit = ledSuit,
                        !.winner = determineTrickWinner(playedCards, trickCall.powerSuit, ledSuit)]
  /\ UNCHANGED <<gameVars, api, apiResult, apiCalls, kittyCall, aiCall, cardCall, takenCards>>

TrickNext == \E card \in TrickCards(trickCall.powerSuit) : ResolveTrick(card)

TrickSpec == TrickInit /\ [][TrickNext]_vars

(* ---------------- the kitty exchange called directly -------------------- *)
(* A caller holding the human's hand and the kitty of a deal hands         *)
(* handleHumanKitty four to six of the cards offered: those of hand and    *)
(* kitty and the first MaxForeign cards of Patricia's hand.                *)
KittyInit ==
  /\ GameInit
  /\ api = NullBidding
  /\ apiResult = NoResult
  /\ apiCalls = 0
  /\ trickCall = NoTrickCall
  /\ \E k \in 1..NumShuffles :
       kittyCall = [NoKittyCall EXCEPT
                      !.playerHand = createNewGame(k).hands[3],
                      !.kitty = createNewGame(k).kitty,
                      !.offered = createNewGame(k).hands[3] \o createNewGame(k).kitty
                                    \o SubSeq(createNewGame(k).hands[0], 1, MaxForeign)]
  /\ aiCall = NoAiCall
  /\ cardCall = NoCardCall
  /\ takenCards = <<>>

CallHandleHumanKitty(selected, chosenPowerSuit) ==
  /\ ~ kittyCall.called
  /\ Cardinality(selected) \in (KITTY_SIZE - 1)..(KITTY_SIZE + 1)
  /\ LET picked == SelectSeq([i \in 1..Len(kittyCall.offered) |-> <<i, kittyCall.offered[i]>>],
                             LAMBDA e : e[1] \in selected)
         selectedCards == [i \in 1..Len(picked) |-> picked[i][2]]
         r == handleHumanKitty(kittyCall.playerHand, kittyCall.kitty, selectedCards,
                               chosenPowerSuit)
     IN kittyCall' = [kittyCall EXCEPT
                        !.called = TRUE,
                        !.selectedCards = selectedCards,
                        !.ok = r.ok,
                        !.newHand = r.newHand,
                        !.newKitty = r.newKitty]
  /\ UNCHANGED <<gameVars, api, apiResult, apiCalls, trickCall, aiCall, cardCall, takenCards>>

KittyNext ==
  \E selected \in SUBSET (1..Len(kittyCall.offered)) :
    \E s \in 1..Len(SUITS) : CallHandleHumanKitty(selected, SUITS[s])

KittySpec == KittyInit /\ [][KittyNext]_vars

(* ------------------ the bid chooser called directly -------------------- *)
(* A caller hands chooseAIBid a hand of one to AiHandLen cards and a high  *)
(* bid: no bid yet, or any amount the engine accepts as a bid.  A hand     *)
(* holds, of each suit, its highest or its lowest ranks of CARD_RANKS, the *)
(* suits of SUITS in order of length, with or without the Dunk, and its    *)
(* values are all numbers, as dealt, or all text, as in testAI.            *)
AiSuitCounts ==
  {c \in [1..4 -> 0..AiHandLen] :
     /\ c[1] + c[2] + c[3] + c[4] <= AiHandLen
     /\ c[1] >= c[2] /\ c[2] >= c[3] /\ c[3] >= c[4]
     /\ c[1] <= 14}

AiCard(suit, value, text) ==
  IF text THEN [suit |-> suit, value |-> AsText(value), points |-> UNDEF]
  ELSE createCard(suit, value)

AiHand(c, dunk, top, text) ==
  Concat([n \in 1..4 |->
            [i \in 1..c[n] |->
               AiCard(SUITS[n], IF top THEN CARD_RANKS[15 - i] ELSE CARD_RANKS[i], text)]])
  \o (IF dunk THEN <<createCard(DUNK, D)>> ELSE <<>>)

AiBids == {0} \cup {b \in MIN_BID..MAX_BID : b % BID_INCREMENT = 0}

AiInit ==
  /\ GameInit
  /\ api = NullBidding
  /\ apiResult = NoResult
  /\ apiCalls = 0
  /\ trickCall = NoTrickCall
  /\ kittyCall = NoKittyCall
  /\ \E c \in AiSuitCounts : \E dunk, top, text \in BOOLEAN : \E currentBid \in AiBids :
       /\ Len(AiHand(c, dunk, top, text)) \in 1..AiHandLen
       /\ aiCall = [NoAiCall EXCEPT !.hand = AiHand(c, dunk, top, text),
                                    !.currentBid = currentBid]
  /\ cardCall = NoCardCall
  /\ takenCards = <<>>

CallChooseAIBid ==
  /\ ~ aiCall.called
  /\ \E r \in {chooseAIBid(aiCall.hand, aiCall.currentBid, 70, 200)} :
       aiCall' = [aiCall EXCEPT !.called = TRUE, !.action = r.action, !.amount = r.amount]
  /\ UNCHANGED <<gameVars, api, apiResult, apiCalls, trickCall, kittyCall, cardCall, takenCards>>

AiNext == CallChooseAIBid

AiSpec == AiInit /\ [][AiNext]_vars

(* ------------------ the card chooser called directly ------------------- *)
(* A caller hands selectAICard a computer player, its hand, the cards the  *)
(* seats before it have played to the trick and the power suit.  The cards *)
(* are the first NumCardRanks ranks of CardRankOrder in the first          *)
(* NumCardSuits suits and the Dunk, as dealt or with text values as in     *)
(* testAI; the hand holds up to MaxCardHand of them, in the order of the   *)
(* deck or in the opposite order, and the trick up to MaxCardTrick others. *)
CardRankOrder == <<2, 5, 13, 1, 14, 3, 10, 11, 12, 4, 6, 7, 8, 9>>

CardDeck(text) ==
  Concat([n \in 1..NumCardSuits |->
            [i \in 1..NumCardRanks |-> AiCard(SUITS[n], CardRankOrder[i], text)]])
  \o <<createCard(DUNK, D)>>

Reverse(s) == [i \in 1..Len(s) |-> s[Len(s) + 1 - i]]

(* The seat that plays card i of a trick of n cards which aiPlayer is the  *)
(* next to play to.                                                        *)
SeatBefore(aiPlayer, n, i) ==
  playerOrder[((getPlayerHandIndex(aiPlayer) + 4 - n + i - 1) % 4) + 1]

CardInit ==
  /\ GameInit
  /\ api = NullBidding
  /\ apiResult = NoResult
  /\ apiCalls = 0
  /\ trickCall = NoTrickCall
  /\ kittyCall = NoKittyCall
  /\ aiCall = NoAiCall
  /\ takenCards = <<>>
  /\ \E text, backwards \in BOOLEAN : \E aiPlayer \in {"Patricia", "Alex", "Jordan"} :
     \E p \in 1..(NumCardSuits + 1) : \E n \in 1..MaxCardTrick :
       LET deck == IF backwards THEN Reverse(CardDeck(text)) ELSE CardDeck(text)
           cards == {deck[i] : i \in 1..Len(deck)}
       IN \E held \in SUBSET cards : \E trick \in [1..n -> cards \ held] :
            /\ Cardinality(held) \in 1..MaxCardHand
            /\ \A i, j \in 1..n : i # j => trick[i] # trick[j]
            /\ cardCall = [NoCardCall EXCEPT
                             !.aiPlayer = aiPlayer,
                             !.aiHand = SelectSeq(deck, LAMBDA c : c \in held),
                             !.playedCards = [i \in 1..n |->
                                                [card |-> trick[i],
                                                 player |-> SeatBefore(aiPlayer, n, i)]],
                             !.powerSuit = SUITS[p]]

CallSelectAICard ==
  /\ ~ cardCall.called
  /\ cardCall' = [cardCall EXCEPT
                    !.called = TRUE,
                    !.card = selectAICard(cardCall.aiPlayer, cardCall.aiHand,
                                          cardCall.playedCards, cardCall.powerSuit)]
  /\ UNCHANGED <<gameVars, api, apiResult, apiCalls, trickCall, kittyCall, aiCall, takenCards>>

CardNext == CallSelectAICard

CardSpec == CardInit /\ [][CardNext]_vars

(* ============================== properties ============================= *)
Last(seq) == seq[Len(seq)]
SeqToSet(seq) == {seq[i] : i \in 1..Len(seq)}
CapturedBy(team, rs) == IF team = "team1" THEN rs.team1Score ELSE rs.team2Score
TotalOf(team, total) == IF team = "team1" THEN total.team1 ELSE total.team2
OtherTeam(team) == IF team = "team1" THEN "team2" ELSE "team1"
ValueOf(cards) == SumSeq([i \in 1..Len(cards) |-> getCardPoints(cards[i])])
CardIds(cards) == {<<cards[i].suit, cards[i].value>> : i \in 1..Len(cards)}
AuctionOpen == biddingState # NullBidding
HasBid == AuctionOpen /\ biddingState.bids # <<>>
AuctionComplete == AuctionOpen /\ isBiddingComplete(biddingState)

(* C1: once the last trick is resolved and the final-trick rewards (kitty  *)
(* points and the 20-point bonus) are applied, the points captured by the  *)
(* two teams total exactly 200.                                            *)
C1_PointsTotal200 ==
  trickButton = "final" => roundState.team1Score + roundState.team2Score = 200

(* C2: in an auction without a bid of the maximum, bidding is complete     *)
(* exactly when three distinct seats have passed.                          *)
C2_TerminalIffThreeSeatsPassed ==
  (AuctionOpen /\ biddingState.highestBid # MAX_BID)
    => (isBiddingComplete(biddingState)
          <=> Cardinality(SeqToSet(biddingState.passes)) >= 3)

(* C3: the cards in play never number more than four and no seat has two   *)
(* of them, also while a completed trick waits for the move to the next.   *)
C3_OneCardPerSeat ==
  /\ Len(roundState.playedCards) <= 4
  /\ \A i, j \in 1..Len(roundState.playedCards) :
       i # j => roundState.playedCards[i].player # roundState.playedCards[j].player

(* C4: a card played to a non-empty trick, by the human or by a computer   *)
(* player, matches the led suit whenever the playing seat holds a card     *)
(* that matches it (the Dunk matching exactly when the power suit is led). *)
C4_FollowsLedSuit ==
  [][(roundState.playedCards # <<>>
      /\ Len(roundState'.playedCards) = Len(roundState.playedCards) + 1)
     => LET e == Last(roundState'.playedCards)
            hand == hands[getPlayerHandIndex(e.player)]
            ledSuit == LedSuitOf(roundState.playedCards, roundState.powerSuit)
        IN (\E i \in 1..Len(hand) : MatchesLed(hand[i], ledSuit, roundState.powerSuit))
             => MatchesLed(e.card, ledSuit, roundState.powerSuit)]_vars

(* A seat followed the led suit while still holding a card of another suit. *)
C4_Witness ==
  /\ currentPhase = "gameplay"
  /\ \E i \in 2..Len(roundState.playedCards) :
       LET e == roundState.playedCards[i]
           hand == hands[getPlayerHandIndex(e.player)]
           ledSuit == LedSuitOf(roundState.playedCards, roundState.powerSuit)
       IN /\ MatchesLed(e.card, ledSuit, roundState.powerSuit)
          /\ \E n \in 1..Len(hand) : ~ MatchesLed(hand[n], ledSuit, roundState.powerSuit)

(* C5: at settlement the declaring team's cumulative score changes by its  *)
(* captured points when they reach the bid and by minus the bid when they  *)
(* do not; the other team's changes by the points it captured.             *)
C5_SettlementDeltas ==
  [][(currentPhase = "gameplay" /\ currentPhase' = "round_scoring")
     => LET declarers == TeamOf(roundState.bidWinner)
            others == OtherTeam(declarers)
            captured == CapturedBy(declarers, roundState)
        IN /\ TotalOf(declarers, scores') - TotalOf(declarers, scores)
                = IF captured >= roundState.currentBid THEN captured
                  ELSE 0 - roundState.currentBid
           /\ TotalOf(others, scores') - TotalOf(others, scores)
                = CapturedBy(others, roundState)]_vars

(* A round was settled in which the declaring team fell short of its bid.  *)
C5_Witness ==
  /\ currentPhase = "round_scoring"
  /\ roundHistory # <<>>
  /\ ~ Last(roundHistory).bidMade
  /\ TotalOf(TeamOf(Last(roundHistory).bidWinner), scores) = 0 - Last(roundHistory).bidAmount

C7_InvalidBidRejected ==
  (apiResult.op = "bid"
   /\ \/ apiResult.amount % BID_INCREMENT # 0
      \/ apiResult.amount < apiResult.before.highestBid + BID_INCREMENT
      \/ apiResult.amount < MIN_BID
      \/ apiResult.amount > MAX_BID)
    => apiResult.error = "INVALID_BID"

(* A bid equal to the standing highest bid was refused.                    *)
C7_Witness ==
  /\ apiResult.op = "bid"
  /\ apiResult.before.highestBid >= MIN_BID
  /\ apiResult.amount = apiResult.before.highestBid
  /\ apiResult.error = "INVALID_BID"

(* C8: a bid or pass for a seat that is not the current bidder is rejected *)
(* and leaves the bidding state unchanged.                                 *)
C8_OutOfTurnBidRejected ==
  (apiResult.op # "none" /\ apiResult.seat # getCurrentBidder(apiResult.before))
    => (~ apiResult.ok /\ api = apiResult.before)

(* C9: a card play requested while it is another seat's turn is rejected   *)
(* with an out-of-turn error, leaving trick, hands and turn unchanged.     *)
C9_OutOfTurnPlayRejected ==
  [][(roundState.currentTurn # "You" /\ \E i \in 1..Len(hands[3]) : handleCardClick(i))
     => (outcome' = "OUT_OF_TURN" /\ roundState' = roundState /\ hands' = hands)]_vars

(* C10: a rejected bid leaves the bidding state as it was: highest bid and *)
(* bidder, recorded bids and passes, current bidder and completion.        *)
C10_RejectedBidKeepsState ==
  (apiResult.op = "bid" /\ ~ apiResult.ok)
    => /\ api = apiResult.before
       /\ apiResult.inp = apiResult.before

(* A bid was refused in an auction that already had bids and passes.       *)
C10_Witness ==
  /\ apiResult.op = "bid"
  /\ ~ apiResult.ok
  /\ api.bids # <<>>
  /\ api.passes # <<>>

(* C11: a bid of the maximum completes the auction in the step that makes  *)
(* it, with the bidding seat as winner and 200 as the winning bid; from    *)
(* then on no seat is asked to bid or pass and the auction does not change. *)
C11_MaxBidEndsAuction ==
  /\ [][(AuctionOpen /\ Len(biddingState'.bids) = Len(biddingState.bids) + 1
         /\ Last(biddingState'.bids).amount = MAX_BID)
        => /\ biddingState'.isComplete
           /\ biddingState'.winner = Last(biddingState'.bids).player
           /\ biddingState'.winningBid = MAX_BID]_vars
  /\ []((AuctionOpen /\ biddingState.highestBid = MAX_BID)
         => /\ ~ bidFormShown
            /\ \A i \in 1..Len(timers) : timers[i].fn # "aiBid")
  /\ [][(AuctionOpen /\ biddingState.highestBid = MAX_BID) => biddingState' = biddingState]_vars

(* An auction ended on a bid of 200 before three passes were made, and the *)
(* controller moved on without asking another seat.                        *)
C11_Witness ==
  /\ AuctionOpen
  /\ biddingState.isComplete
  /\ biddingState.highestBid = MAX_BID
  /\ biddingState.winner = Last(biddingState.bids).player
  /\ biddingState.winningBid = MAX_BID
  /\ Len(biddingState.passes) < 3
  /\ bidNextShown
  /\ timers = <<>>

C14_PowerBeatsNonPower ==
  \A i, j \in 1..Len(trickCall.playedCards) :
    (/\ trickCall.playedCards[i].card.suit = trickCall.powerSuit
     /\ ~ IsPowerCard(trickCall.playedCards[j].card, trickCall.powerSuit))
      => trickCall.winner # trickCall.playedCards[j].player

(* The power suit's 2, played last, took a trick led with another suit's 1. *)
C14_Witness ==
  /\ Len(trickCall.playedCards) = 4
  /\ \A i \in 1..3 : ~ IsPowerCard(trickCall.playedCards[i].card, trickCall.powerSuit)
  /\ trickCall.playedCards[1].card.value = 1
  /\ trickCall.playedCards[4].card = createCard(trickCall.powerSuit, 2)
  /\ trickCall.winner = trickCall.playedCards[4].player

(* C15: a resolved trick that holds the power suit's 1 is won by the seat  *)
(* that played it, in whichever position it was played.                    *)
C15_PowerOneWins ==
  \A i \in 1..Len(trickCall.playedCards) :
    trickCall.playedCards[i].card = createCard(trickCall.powerSuit, 1)
      => trickCall.winner = trickCall.playedCards[i].player

(* The power suit's 1 was played last, after the Dunk and the power suit's *)
(* 14, and won.                                                            *)
C15_Witness ==
  /\ Len(trickCall.playedCards) = 4
  /\ trickCall.playedCards[4].card = createCard(trickCall.powerSuit, 1)
  /\ \E i, j \in 1..3 : /\ trickCall.playedCards[i].card.suit = DUNK
                        /\ trickCall.playedCards[j].card = createCard(trickCall.powerSuit, 14)
  /\ trickCall.winner = trickCall.playedCards[4].player

(* C16: the step that completes a trick credits the point values of its    *)
(* cards to the team of the seat that wins it and nothing to the other     *)
(* team; and when a completed trick waits to be cleared, every card that   *)
(* has left the hands has been credited: the captured points of the two    *)
(* teams are the deck's points less those still in the hands and the kitty. *)
C16_TrickPointsCredited ==
  /\ [][(Len(roundState.playedCards) < 4 /\ Len(roundState'.playedCards) = 4)
        => LET playedCards == roundState'.playedCards
               winner == determineTrickWinner(playedCards, roundState.powerSuit,
                                              LedSuitOf(playedCards, roundState.powerSuit))
               trickPoints == ValueOf([i \in 1..4 |-> playedCards[i].card])
           IN /\ CapturedBy(TeamOf(winner), roundState')
                   = CapturedBy(TeamOf(winner), roundState) + trickPoints
              /\ CapturedBy(OtherTeam(TeamOf(winner)), roundState')
                   = CapturedBy(OtherTeam(TeamOf(winner)), roundState)]_vars
  /\ [](trickButton = "next"
         => roundState.team1Score + roundState.team2Score
              = getHandPoints(createDeck) - ValueOf(kitty)
                - SumSeq([p \in 1..4 |-> ValueOf(hands[p - 1])]))

(* C17: the step that applies the final-trick rewards adds the point total *)
(* of the kitty's cards and the 20-point bonus to the captured points of   *)
(* the final trick's winning team and nothing to the other team's.         *)
C17_FinalTrickRewards ==
  [][(trickButton = "next" /\ trickButton' = "final")
     => LET team == TeamOf(Last(roundState'.trickWinners))
        IN /\ CapturedBy(team, roundState')
                = CapturedBy(team, roundState) + ValueOf(kitty) + FINAL_TRICK_BONUS
           /\ CapturedBy(OtherTeam(team), roundState')
                = CapturedBy(OtherTeam(team), roundState)]_vars

(* C18: once the final-trick rewards are applied the kitty of the game     *)
(* state is empty.                                                         *)
C18_KittyClearedAfterRewards ==
  trickButton = "final" => kitty = <<>>

(* C19: the cumulative scores change only in the settlement step, the step *)
(* from card play to round scoring.                                        *)
C19_ScoresChangeOnlyAtSettlement ==
  [][scores' # scores => (currentPhase = "gameplay" /\ currentPhase' = "round_scoring")]_vars

(* A round was played to its settlement, which changed the cumulative      *)
(* scores from 0 to the round's final scores.                              *)
C19_Witness ==
  /\ currentPhase = "round_scoring"
  /\ Len(roundState.trickWinners) = CARDS_PER_PLAYER
  /\ scores # [team1 |-> 0, team2 |-> 0]
  /\ scores = [team1 |-> roundState.team1FinalScore, team2 |-> roundState.team2FinalScore]

(* C20: the settlement that brings a cumulative score to 500 or more puts  *)
(* the game in its end state in that step, and once a cumulative score is  *)
(* 500 or more no further round is dealt.                                  *)
C20_MatchEndsAtSettlement ==
  /\ [][(Len(roundHistory') = Len(roundHistory) + 1
         /\ (scores'.team1 >= WINNING_SCORE \/ scores'.team2 >= WINNING_SCORE))
        => currentPhase' = "end"]_vars
  /\ [][(scores.team1 >= WINNING_SCORE \/ scores.team2 >= WINNING_SCORE)
        => (currentHand' = currentHand /\ hands' = hands)]_vars

(* C21: when both teams are at or above the winning score after the same   *)
(* round, the team with the strictly higher cumulative score is the one    *)
(* the game ends for.                                                      *)
BothReached == scores.team1 >= WINNING_SCORE /\ scores.team2 >= WINNING_SCORE

C21_HigherTotalWins ==
  (currentPhase = "end" /\ BothReached)
    => /\ scores.team1 > scores.team2 => matchWinner = "team1"
       /\ scores.team2 > scores.team1 => matchWinner = "team2"

C21_Witness ==
  /\ currentPhase = "end"
  /\ BothReached
  /\ scores.team2 > scores.team1
  /\ matchWinner = "team2"

(* C22: when both teams are at or above the winning score with equal       *)
(* cumulative scores, the game ends for the team whose score changed by    *)
(* more in the round just completed.                                       *)
C22_TieGoesToLastRoundDelta ==
  (currentPhase = "end" /\ BothReached /\ scores.team1 = scores.team2)
    => /\ Last(roundHistory).team1Final > Last(roundHistory).team2Final
            => matchWinner = "team1"
       /\ Last(roundHistory).team2Final > Last(roundHistory).team1Final
            => matchWinner = "team2"

C22_Witness ==
  /\ currentPhase = "end"
  /\ BothReached
  /\ scores.team1 = scores.team2
  /\ Last(roundHistory).team1Final > Last(roundHistory).team2Final
  /\ matchWinner = "team1"

(* C23: the declarer's kitty exchange, made by the human or by a computer  *)
(* player, leaves the declarer a full hand and the kitty five cards, and   *)
(* the two together are the cards hand and kitty held before it.           *)
ComputerExchange ==
  /\ currentPhase = "bidding" /\ currentPhase' = "kitty"
  /\ roundState.bidWinner \in {"Patricia", "Alex", "Jordan"}

HumanExchange ==
  /\ currentPhase = "kitty" /\ currentPhase' = "gameplay"
  /\ roundState.bidWinner = "You"

C23_KittyExchangeKeepsCards ==
  [][(ComputerExchange \/ HumanExchange)
     => LET w == getPlayerHandIndex(roundState.bidWinner)
        IN /\ Len(hands'[w]) = CARDS_PER_PLAYER
           /\ Len(kitty') = KITTY_SIZE
           /\ CardIds(hands'[w]) \cup CardIds(kitty') = CardIds(hands[w]) \cup CardIds(kitty)
           /\ Cardinality(CardIds(hands'[w]) \cup CardIds(kitty'))
                = CARDS_PER_PLAYER + KITTY_SIZE]_vars

C23_Witness ==
  /\ currentPhase = "gameplay"
  /\ roundState.bidWinner = "You"
  /\ roundState.currentTrick = 0
  /\ roundState.playedCards = <<>>
  /\ Len(hands[3]) = CARDS_PER_PLAYER
  /\ Len(kitty) = KITTY_SIZE
  /\ \A k \in 1..NumShuffles : CardIds(kitty) # CardIds(createNewGame(k).kitty)

(* C24: a human kitty selection is rejected unless it is exactly five      *)
(* cards, each of them a card of the declarer's hand or of the kitty.      *)
InPool(card, playerHand, kittyCards) ==
  \E j \in 1..Len(playerHand \o kittyCards) : SameCard((playerHand \o kittyCards)[j], card)

C24_InvalidSelectionRejected ==
  (/\ kittyCall.called
   /\ ~ (/\ Len(kittyCall.selectedCards) = 5
         /\ \A i \in 1..Len(kittyCall.selectedCards) :
              InPool(kittyCall.selectedCards[i], kittyCall.playerHand, kittyCall.kitty)))
    => ~ kittyCall.ok

(* C25: a bid or a pass handed to the engine leaves the bidding state it   *)
(* was given as it was: the bids and the passes recorded in that state are *)
(* the same after the call as before it.                                   *)
C25_BidAndPassArePure ==
  apiResult.op # "none"
    => /\ apiResult.inp.bids = apiResult.before.bids
       /\ apiResult.inp.passes = apiResult.before.passes

(* C26: every accepted bid and every pass moves the current bidder on by   *)
(* one seat in the order Patricia, Alex, Jordan, You, Patricia, ...        *)
SeatAfter(seat) ==
  CASE seat = "Patricia" -> "Alex"
    [] seat = "Alex" -> "Jordan"
    [] seat = "Jordan" -> "You"
    [] seat = "You" -> "Patricia"

C26_BidderAdvancesOneSeat ==
  [][(apiCalls' = apiCalls + 1 /\ apiResult'.ok)
     => getCurrentBidder(api') = SeatAfter(getCurrentBidder(api))]_vars

C26_Witness ==
  /\ apiResult.ok
  /\ apiResult.op = "bid"
  /\ apiResult.amount = 200
  /\ getCurrentBidder(apiResult.before) = "You"
  /\ getCurrentBidder(api) = "Patricia"

(* C27: the first card of a round's first trick is played by the seat that *)
(* won the bidding: as card play begins, the trick leader and the seat on  *)
(* turn are both the bid winner.                                           *)
C27_BidWinnerLeadsFirstTrick ==
  /\ [][(currentPhase = "kitty" /\ currentPhase' = "gameplay")
        => /\ roundState'.bidWinner = biddingState.winner
           /\ roundState'.trickLeader = biddingState.winner
           /\ roundState'.currentTurn = biddingState.winner]_vars
  /\ [](currentPhase = "gameplay" /\ roundState.currentTrick = 0
          /\ roundState.playedCards # <<>>
        => roundState.playedCards[1].player = biddingState.winner)

C27_Witness ==
  /\ currentPhase = "gameplay"
  /\ roundState.currentTrick = 0
  /\ roundState.playedCards # <<>>
  /\ biddingState.winner = "Jordan"
  /\ roundState.playedCards[1].player = "Jordan"

(* C28: every trick after the first is led by the seat that won the trick  *)
(* before it.                                                              *)
C28_TrickWinnerLeadsNext ==
  (currentPhase = "gameplay" /\ roundState.currentTrick >= 1 /\ roundState.playedCards # <<>>)
    => roundState.playedCards[1].player = roundState.trickWinners[roundState.currentTrick]

(* C29: for every hand and every high bid, the bid chooser answers pass or *)
(* an amount that is a multiple of 5 within 70..200 and at least 5 above   *)
(* the high bid.                                                           *)
C29_ChosenBidIsValid ==
  (aiCall.called /\ aiCall.action # PASS)
    => /\ aiCall.action = "bid"
       /\ aiCall.amount % 5 = 0
       /\ aiCall.amount >= 70 /\ aiCall.amount <= 200
       /\ aiCall.amount >= aiCall.currentBid + 5

C29_Witness ==
  /\ aiCall.called
  /\ aiCall.action = "bid"
  /\ aiCall.currentBid >= 175
  /\ aiCall.amount = 200

(* C30: for a hand whose strength with its best power suit is below 25,    *)
(* the bid chooser answers pass.                                           *)
BestStrength2(hand) == evaluateHandStrength(hand, chooseBestPowerSuit(hand))

C30_WeakHandPasses ==
  (aiCall.called /\ BestStrength2(aiCall.hand) < 2 * 25) => aiCall.action = PASS

(* C30, amended: for a hand whose strength with its best power suit is     *)
(* below 25, the bid chooser answers pass whenever a bid has been made.    *)
C30_WeakHandPassesOnceBid ==
  (aiCall.called /\ aiCall.currentBid # 0 /\ BestStrength2(aiCall.hand) < 2 * 25)
    => aiCall.action = PASS

C30_Witness ==
  /\ aiCall.called
  /\ aiCall.currentBid = 70
  /\ BestStrength2(aiCall.hand) < 2 * 25
  /\ BestStrength2(aiCall.hand) >= 2 * 20
  /\ aiCall.action = PASS

(* C31: whenever the bid chooser raises an existing bid, the amount it     *)
(* answers exceeds neither the ceiling it computed from the strength of    *)
(* the hand nor the table maximum.                                         *)
C31_RaiseWithinCeiling ==
  (aiCall.called /\ aiCall.currentBid # 0 /\ aiCall.action = "bid")
    => /\ aiCall.amount <= maxComfortableBid(BestStrength2(aiCall.hand))
       /\ aiCall.amount <= MAX_BID

(* C32: when no legal card of a computer player would win the trick and an *)
(* opponent holds it, the player plays its lowest legal card without       *)
(* points, and a card with points, the lowest, only when every legal card  *)
(* it holds has points.                                                    *)
AsDealt(card) ==
  createCard(card.suit, IF IsText(card.value) THEN card.value - 100 ELSE card.value)

TrickAsDealt(playedCards) ==
  [i \in 1..Len(playedCards) |->
     [card |-> AsDealt(playedCards[i].card), player |-> playedCards[i].player]]

HolderOf(playedCards, powerSuit) ==
  determineTrickWinner(TrickAsDealt(playedCards), powerSuit,
                       LedSuitOf(playedCards, powerSuit))

LegalCards(hand, playedCards, powerSuit) ==
  {hand[i] : i \in {k \in 1..Len(hand) :
                      isCardPlayValid(hand[k], playedCards, hand, powerSuit)}}

WouldWin(card, player, playedCards, powerSuit) ==
  HolderOf(Append(playedCards, [card |-> card, player |-> player]), powerSuit) = player

(* Rank of a card in the order of play: the 1 is high, the Dunk 10.5.      *)
PlayRank(card) ==
  IF AsDealt(card).value = 1 THEN 30 ELSE EffectiveValue(AsDealt(card))

C32_OpponentHolds ==
  /\ cardCall.called
  /\ TeamOf(HolderOf(cardCall.playedCards, cardCall.powerSuit)) # TeamOf(cardCall.aiPlayer)
  /\ \A c \in LegalCards(cardCall.aiHand, cardCall.playedCards, cardCall.powerSuit) :
       ~ WouldWin(c, cardCall.aiPlayer, cardCall.playedCards, cardCall.powerSuit)

C32_LowestNonPointCard ==
  C32_OpponentHolds =>
    LET legal == LegalCards(cardCall.aiHand, cardCall.playedCards, cardCall.powerSuit)
        nonPoint == {c \in legal : AsDealt(c).points = 0}
        among == IF nonPoint # {} THEN nonPoint ELSE legal
    IN /\ cardCall.card \in among
       /\ \A c \in among : PlayRank(cardCall.card) <= PlayRank(c)

(* C33: the point values of all cards in the four hands and the kitty of a *)
(* round, from the deal until the first card is played, total 200.         *)
RankPoints(cards) == SumSeq([i \in 1..Len(cards) |-> CARD_VALUES(cards[i].value)])

DealtCards == hands[0] \o hands[1] \o hands[2] \o hands[3] \o kitty

NoCardPlayedYet ==
  /\ currentPhase \in {"dealing", "bidding", "kitty", "gameplay"}
  /\ roundState.currentTrick = 0
  /\ roundState.playedCards = <<>>

C33_DealtPointsTotal200 ==
  NoCardPlayedYet => RankPoints(DealtCards) = 200

(* C33, amended: the point values of all cards in the four hands and the   *)
(* kitty of a round, from the deal until the first card is played, total   *)
(* 180; the 20 points of the final trick bring the round to 200.           *)
C33_DealtPointsTotal180 ==
  NoCardPlayedYet =>
    /\ RankPoints(DealtCards) = 180
    /\ RankPoints(DealtCards) + FINAL_TRICK_BONUS = ROUND_POINTS

C33_Witness ==
  /\ currentPhase = "gameplay"
  /\ NoCardPlayedYet
  /\ roundState.bidWinner = "You"
  /\ Len(DealtCards) = DeckSize
  /\ RankPoints(DealtCards) = 180

(* C34: a seat that has passed is skipped for the rest of the auction: as  *)
(* long as the auction is open the seat asked to bid has not passed, and   *)
(* no seat is recorded as passing twice.                                   *)
C34_PassedSeatIsSkipped ==
  (AuctionOpen /\ ~ isBiddingComplete(biddingState))
    => /\ getCurrentBidder(biddingState) \notin SeqToSet(biddingState.passes)
       /\ Cardinality(SeqToSet(biddingState.passes)) = Len(biddingState.passes)

(* C35: the trick number stays within 0..12 throughout a round (here       *)
(* 0..LAST_TRICK_INDEX, a trick per card of a hand), and when settlement   *)
(* runs exactly 13 (CARDS_PER_PLAYER) trick winners have been recorded.    *)
C35_ThirteenTricksPerRound ==
  /\ roundState.currentTrick \in 0..LAST_TRICK_INDEX
  /\ Len(roundState.trickWinners) <= CARDS_PER_PLAYER
  /\ (trickButton = "final" \/ currentPhase = "round_scoring")
       => /\ Len(roundState.trickWinners) = CARDS_PER_PLAYER
          /\ roundState.currentTrick = LAST_TRICK_INDEX

C35_Witness ==
  /\ currentPhase = "round_scoring"
  /\ Len(roundHistory) = 1
  /\ Len(roundState.trickWinners) = CARDS_PER_PLAYER
  /\ roundState.currentTrick = LAST_TRICK_INDEX

(* C36: every card a computer player adds to the trick is played for the   *)
(* seat on turn at that moment, and that seat has no card in the trick     *)
(* yet.                                                                    *)
C36_AIPlaysOnTurnOnce ==
  [][(/\ Len(roundState'.playedCards) = Len(roundState.playedCards) + 1
      /\ Last(roundState'.playedCards).player # "You")
       => /\ Last(roundState'.playedCards).player = roundState.currentTurn
          /\ \A i \in 1..Len(roundState.playedCards) :
               roundState.playedCards[i].player # Last(roundState'.playedCards).player]_vars

(* C37: throughout a round the four hands, the kitty and the cards already *)
(* played form exactly the deck, no card twice and none missing, and each  *)
(* accepted play removes exactly the played card from the hand of the seat *)
(* that played it.                                                         *)
TableCards == [i \in 1..Len(roundState.playedCards) |-> roundState.playedCards[i].card]

AllCards == DealtCards \o TableCards \o takenCards

InRound == currentPhase \in {"dealing", "bidding", "kitty", "gameplay", "round_scoring"}

CardPlayed == Len(roundState'.playedCards) = Len(roundState.playedCards) + 1

C37_CardsConserved ==
  /\ [](InRound => /\ Len(AllCards) = DeckSize
                   /\ CardIds(AllCards) = CardIds(createDeck))
  /\ [][CardPlayed
         => LET played == Last(roundState'.playedCards)
                seat == getPlayerHandIndex(played.player)
            IN /\ \E i \in 1..Len(hands[seat]) :
                    /\ SameCard(hands[seat][i], played.card)
                    /\ hands'[seat] = RemoveAt(hands[seat], i)
               /\ \A other \in 0..3 : other # seat => hands'[other] = hands[other]
               /\ kitty' = kitty]_vars

C37_Witness ==
  /\ currentPhase = "round_scoring"
  /\ roundState.bidWinner = "You"
  /\ Len(takenCards) = 4 * LAST_TRICK_INDEX
  /\ Len(TableCards) = 4
  /\ Len(kitty) = KITTY_SIZE
  /\ \A p \in 0..3 : hands[p] = <<>>

(* C38: for every partial or complete trick the seat the computer players' *)
(* evaluation names as holding the trick (getCurrentWinner, and            *)
(* getLikelyTrickWinner) is the seat the trick resolver names for the same *)
(* cards and power suit.                                                   *)
C38_AIWinnerMatchesResolver ==
  trickCall.playedCards # <<>>
    => /\ getCurrentWinner(trickCall.playedCards, trickCall.powerSuit).player
            = trickCall.winner
       /\ getLikelyTrickWinner(trickCall.playedCards, trickCall.powerSuit).player
            = trickCall.winner

(* C39: whenever bidding is complete, the winner is one of the four seats  *)
(* and the winning bid lies within 70..200, and so do the declarer and the *)
(* bid the controller then records for the round.                          *)
C39_CompleteAuctionHasWinner ==
  /\ AuctionComplete
       => /\ getBiddingResult(biddingState).winner \in Seats
          /\ getBiddingResult(biddingState).winningBid \in MIN_BID..MAX_BID
  /\ bidNextShown
       => /\ roundState.bidWinner = getBiddingResult(biddingState).winner
          /\ roundState.currentBid = getBiddingResult(biddingState).winningBid
          /\ roundState.currentBid \in MIN_BID..MAX_BID

C39_Witness ==
  /\ currentHand = 4
  /\ AuctionComplete
  /\ bidNextShown
  /\ biddingState.passes # <<>>
  /\ biddingState.passes[1] = "You"
  /\ biddingState.winner \in {"Patricia", "Alex", "Jordan"}
  /\ biddingState.winningBid = MIN_BID

(* C40: settlement is applied exactly once per completed round: the round  *)
(* history and the cumulative scores change only in the step from the      *)
(* final trick to round scoring, which adds one record, for the current    *)
(* round, and adds each team's final round score to its total once; no     *)
(* round has two records, a settled round has one and a round just dealt   *)
(* has none.                                                               *)
RecordsOf(roundNumber) ==
  {i \in 1..Len(roundHistory) : roundHistory[i].roundNumber = roundNumber}

C40_SettledExactlyOnce ==
  /\ [][(roundHistory' # roundHistory \/ scores' # scores)
         => /\ currentPhase = "gameplay" /\ trickButton = "final"
            /\ currentPhase' = "round_scoring"
            /\ roundHistory' = Append(roundHistory, Last(roundHistory'))
            /\ Last(roundHistory').roundNumber = currentHand
            /\ scores'.team1 = scores.team1 + roundState'.team1FinalScore
            /\ scores'.team2 = scores.team2 + roundState'.team2FinalScore]_vars
  /\ [][(currentPhase = "gameplay" /\ currentPhase' = "round_scoring")
         => Len(roundHistory') = Len(roundHistory) + 1]_vars
  /\ [](\A i \in 1..Len(roundHistory) :
          Cardinality(RecordsOf(roundHistory[i].roundNumber)) = 1)
  /\ [](currentPhase \in {"round_scoring", "end"} => Cardinality(RecordsOf(currentHand)) = 1)
  /\ [](currentPhase = "dealing" => RecordsOf(currentHand) = {})

C40_Witness ==
  /\ currentPhase = "dealing"
  /\ currentHand = 2 * MaxScoreSteps + 1
  /\ Len(roundHistory) = 1
  /\ roundHistory[1].roundNumber = 2 * MaxScoreSteps
  /\ scores.team1 = roundHistory[1].team1Total
  /\ scores.team2 = roundHistory[1].team2Total
  /\ roundHistory[1].team1Final + roundHistory[1].team2Final # 0

====
